---- MODULE Spec2Model ----
(***************************************************************************)
(* The tabular analysis engine of Oxidized_Bio: run_analysis               *)
(* (src/src/analysis/mod.rs) and the HTTP handler that calls it            *)
(* (src/src/routes/analysis.rs).                                           *)
(*                                                                         *)
(* Conventions of the model                                                *)
(*  - A CSV cell is a string.  parse_f64 maps the decimal text of an       *)
(*    integer of the modelled range to that integer, the text "NaN" to the *)
(*    f64 NaN, and fails on any other text.  Finite numbers are exact;     *)
(*    NaN propagates through arithmetic and fails every comparison, as in  *)
(*    IEEE 754.  Infinite cells, overflow and rounding are outside the     *)
(*    model.                                                               *)
(*  - Quantities the code obtains by division are exact rationals <<n,d>>  *)
(*    in lowest terms with d > 0, or RatNaN.  Quantities the code obtains  *)
(*    through sqrt are carried by their square (std_dev_sq, score_sq) and, *)
(*    where the sign matters, by sign and square.                          *)
(*  - Vec positions are 1-based here: position i stands for index i-1 of   *)
(*    the code, so format!("column_{}", idx + 1) is ColumnName(i).         *)
(*  - Option<T>: None is <<>>, Some(v) is <<v>>.                           *)
(***************************************************************************)
EXTENDS Integers, Sequences, FiniteSets, TLC

\* ------------------------------------------------------------------ bounds

\* columns of a dataset of the general specification
MaxCols == 2
\* records the reader returns in the general specification
MaxRows == 3
\* numeric cells are the decimal texts of 0..MaxNum
MaxNum == 2

\* ----------------------------------------------------------- basic helpers

None == <<>>

Some(v) == <<v>>

IsSome(o) == o # <<>>

Unwrap(o) == o[1]

Abs(n) == IF n < 0 THEN -n ELSE n

Min2(a, b) == IF b < a THEN b ELSE a

Max2(a, b) == IF b > a THEN b ELSE a

RECURSIVE GCD(_, _)
GCD(a, b) == IF b = 0 THEN a ELSE GCD(b, a % b)

\* the sequences ss[lo], ..., ss[hi] one after the other
RECURSIVE ConcatRange(_, _, _)
ConcatRange(ss, lo, hi) ==
    IF lo > hi THEN <<>>
    ELSE IF lo = hi THEN ss[lo]
    ELSE ConcatRange(ss, lo, (lo + hi) \div 2) \o ConcatRange(ss, (lo + hi) \div 2 + 1, hi)

\* the sequences of ss one after the other
Concat(ss) == ConcatRange(ss, 1, Len(ss))

\* ------------------------------------------------------------- f64 values

\* f64::INFINITY and f64::NEG_INFINITY: beyond every finite value of the model
F64_INFINITY == 1000000

F64_NEG_INFINITY == -1000000

\* f64::NAN: a value apart from the numbers and the infinities
F64_NAN == F64_INFINITY + F64_INFINITY

IsNaN(v) == v = F64_NAN

\* a + b
Add(a, b) == IF IsNaN(a) \/ IsNaN(b) THEN F64_NAN ELSE a + b

\* a * b
Mul(a, b) == IF IsNaN(a) \/ IsNaN(b) THEN F64_NAN ELSE a * b

\* a < b, false when an operand is NaN
Lt(a, b) == ~IsNaN(a) /\ ~IsNaN(b) /\ a < b

\* f64::min and f64::max: a NaN operand is ignored
f64_min(a, b) == IF IsNaN(b) THEN a ELSE IF IsNaN(a) THEN b ELSE Min2(a, b)

f64_max(a, b) == IF IsNaN(b) THEN a ELSE IF IsNaN(a) THEN b ELSE Max2(a, b)

\* s[lo] + ... + s[hi]
RECURSIVE SumRange(_, _, _)
SumRange(s, lo, hi) ==
    IF lo > hi THEN 0
    ELSE IF lo = hi THEN s[lo]
    ELSE Add(SumRange(s, lo, (lo + hi) \div 2), SumRange(s, (lo + hi) \div 2 + 1, hi))

\* iter().sum::<f64>()
SumSeq(s) == SumRange(s, 1, Len(s))

\* the set of the elements of a sequence
Range(s) == {s[i] : i \in 1..Len(s)}

\* every enumeration (without repetition) of a finite set
Enumerations(S) ==
    {s \in [1..Cardinality(S) -> S] : \A i, j \in 1..Cardinality(S) : s[i] = s[j] => i = j}

\* -------------------------------------------------------- exact rationals

\* NaN among the rationals: the one pair with denominator 0
RatNaN == <<0, 0>>

IsRatNaN(a) == a[2] = 0

\* n/d in lowest terms, denominator positive (d # 0); NaN when n or d is NaN
Rat(n, d) ==
    IF IsNaN(n) \/ IsNaN(d) THEN RatNaN
    ELSE LET g == GCD(Abs(n), Abs(d))
             s == IF d < 0 THEN -1 ELSE 1
         IN  <<(s * n) \div g, (s * d) \div g>>

RatInt(n) == IF IsNaN(n) THEN RatNaN ELSE <<n, 1>>

RatAdd(a, b) ==
    IF IsRatNaN(a) \/ IsRatNaN(b) THEN RatNaN
    ELSE Rat(a[1] * b[2] + b[1] * a[2], a[2] * b[2])

RatSub(a, b) ==
    IF IsRatNaN(a) \/ IsRatNaN(b) THEN RatNaN
    ELSE Rat(a[1] * b[2] - b[1] * a[2], a[2] * b[2])

RatMul(a, b) ==
    IF IsRatNaN(a) \/ IsRatNaN(b) THEN RatNaN
    ELSE Rat(a[1] * b[1], a[2] * b[2])

\* a / b, b # 0
RatDiv(a, b) ==
    IF IsRatNaN(a) \/ IsRatNaN(b) THEN RatNaN
    ELSE Rat(a[1] * b[2], a[2] * b[1])

\* a <= b and a < b, false when an operand is NaN
RatLe(a, b) == ~IsRatNaN(a) /\ ~IsRatNaN(b) /\ a[1] * b[2] <= b[1] * a[2]

RatLt(a, b) == ~IsRatNaN(a) /\ ~IsRatNaN(b) /\ a[1] * b[2] < b[1] * a[2]

RatAbs(a) == <<Abs(a[1]), a[2]>>

\* f64::min and f64::max: a NaN operand is ignored
RatMin(a, b) == IF IsRatNaN(b) THEN a ELSE IF IsRatNaN(a) THEN b ELSE IF RatLt(b, a) THEN b ELSE a

RatMax(a, b) == IF IsRatNaN(b) THEN a ELSE IF IsRatNaN(a) THEN b ELSE IF RatLt(a, b) THEN b ELSE a

\* ------------------------------------------------------------------ state

VARIABLES
    record,             \* DatasetRecord: [has_headers, header_row]; header_row is the file's header line
    config,             \* AnalysisConfig
    file,               \* history: the data records the csv reader has returned so far, in file order
    pc,                 \* the request's position in run_analysis_handler / run_analysis
    files,              \* the output directory: file name -> the request that wrote it last, 0 when absent
    headers,
    stats_values, stats_min, stats_max,
    overall_sum, overall_sum_sq, overall_count,
    group_sums,
    regression_rows, regression_targets,
    univariate_x, univariate_y,
    biomarker_x, biomarker_y,
    boxplot_values,
    descriptive_stats, regressions, novelty_scores, biomarker_candidates, summary,
    heatmap_path, boxplot_path,
    request,            \* the number of the request being served
    peer                \* a concurrent request for the same dataset id: 0 before it arrives, then
                        \* the place in WriteOrder of the file it writes next

locals ==
    <<headers, stats_values, stats_min, stats_max, overall_sum, overall_sum_sq,
      overall_count, group_sums, regression_rows, regression_targets, univariate_x,
      univariate_y, biomarker_x, biomarker_y, boxplot_values>>

results ==
    <<descriptive_stats, regressions, novelty_scores, biomarker_candidates, summary>>

paths == <<heatmap_path, boxplot_path>>

vars == <<record, config, file, pc, files, request, peer, locals, results, paths>>

\* ------------------------------------------------------------ cell parsing

\* the numbers a cell can spell
NumLimit == 12

NumRange == (0 - NumLimit)..NumLimit

\* cell texts that are no number
NonNumericCells == {"x", "A", "B", "C"}

AllCells == {ToString(n) : n \in NumRange} \cup {"NaN"} \cup NonNumericCells

ParseTable ==
    [s \in AllCells |->
        IF \E n \in NumRange : ToString(n) = s
        THEN Some(CHOOSE n \in NumRange : ToString(n) = s)
        ELSE IF s = "NaN" THEN Some(F64_NAN)
        ELSE None]

\* val.parse::<f64>().ok(): f64::from_str reads "NaN" as Ok(f64::NAN)
parse_f64(s) == ParseTable[s]

\* format!("column_{}", idx + 1), with i = idx + 1
ColumnName(i) == "column_" \o ToString(i)

\* --------------------------------------------------------- column resolver

\* mutant: a name the header lacks resolves to the first column (unwrap_or(0))
Mut_position(hs, c) ==
    IF \E i \in 1..Len(hs) : hs[i] = c
    THEN Some(CHOOSE i \in 1..Len(hs) : hs[i] = c /\ \A j \in 1..(i - 1) : hs[j] # c)
    ELSE IF Len(hs) > 0 THEN Some(1) ELSE None

\* hs.iter().position(|h| h == c): the first position holding c
position(hs, c) ==
    IF \E i \in 1..Len(hs) : hs[i] = c
    THEN Some(CHOOSE i \in 1..Len(hs) : hs[i] = c /\ \A j \in 1..(i - 1) : hs[j] # c)
    ELSE None

\* name.as_ref().and_then(|c| headers.iter().position(|h| h == c))
resolve(name) == IF IsSome(name) THEN position(headers, Unwrap(name)) ELSE None

group_index == resolve(config.group_column)

target_index == resolve(config.target_column)

boxplot_index == resolve(config.boxplot_column)

\* the configured covariates found in the header, as <<position, name>>, in configured order
RECURSIVE filter_map_covariates(_)
filter_map_covariates(cs) ==
    IF cs = <<>> THEN <<>>
    ELSE LET p == position(headers, Head(cs))
         IN  (IF IsSome(p) THEN <<(<<Unwrap(p), Head(cs)>>)>> ELSE <<>>)
                 \o filter_map_covariates(Tail(cs))

covariate_indices == filter_map_covariates(config.covariates)

\* the positions 1..n other than the group column, in header order
non_group_from(i, n) ==
    LET NotGroup(k) == Some(k) # group_index
    IN  SelectSeq([k \in 1..(n - i + 1) |-> k + i - 1], NotGroup)

\* Iterator::take(k)
take(s, k) == SubSeq(s, 1, Min2(k, Len(s)))

\* mutant: the cap is off by one (take(max_columns + 1))
Mut_selected_indices ==
    LET filtered == take(non_group_from(1, Len(headers)), config.max_columns + 1)
    IN  IF filtered = <<>> THEN [i \in 1..Len(headers) |-> i] ELSE filtered

selected_indices ==
    LET filtered == take(non_group_from(1, Len(headers)), config.max_columns)
    IN  IF filtered = <<>> THEN [i \in 1..Len(headers) |-> i] ELSE filtered

NSel == Len(selected_indices)

\* headers.get(*col_idx).cloned().unwrap_or_else(|| format!("column_{}", col_idx + 1))
column_label(col_idx) ==
    IF col_idx \in 1..Len(headers) THEN headers[col_idx] ELSE ColumnName(col_idx)

\* ------------------------------------------------- the streaming aggregator

\* vec![v; n]
vec(v, n) == [i \in 1..n |-> v]

\* an empty HashMap
EmptyMap == [k \in {} |-> 0]

\* map with key k set to v
MapPut(m, k, v) == [l \in DOMAIN m \cup {k} |-> IF l = k THEN v ELSE m[l]]

\* record.get(idx)
get(rec, idx) == IF idx \in 1..Len(rec) THEN Some(rec[idx]) ELSE None

\* record.get(idx).and_then(|v| v.parse::<f64>().ok())
get_parsed(rec, idx) ==
    IF IsSome(get(rec, idx)) THEN parse_f64(Unwrap(get(rec, idx))) ELSE None

\* group_index.and_then(|idx| record.get(idx).map(|v| v.to_string()))
group_value(rec) == IF IsSome(group_index) THEN get(rec, Unwrap(group_index)) ELSE None

\* the parsed cell of the selected column at position pos
selected_val(rec, pos) == get_parsed(rec, selected_indices[pos])

\* target_index and the record's target cell, parsed
target_val(rec) ==
    IF IsSome(target_index) THEN get_parsed(rec, Unwrap(target_index)) ELSE None

\* the inner loop over the selected columns: the retained vector
push_stats_values(rec) ==
    [pos \in 1..NSel |->
        IF IsSome(selected_val(rec, pos))
        THEN Append(stats_values[pos], Unwrap(selected_val(rec, pos)))
        ELSE stats_values[pos]]

\* stats_min[pos] = stats_min[pos].min(parsed)
update_stats_min(rec) ==
    [pos \in 1..NSel |->
        IF IsSome(selected_val(rec, pos))
        THEN f64_min(stats_min[pos], Unwrap(selected_val(rec, pos)))
        ELSE stats_min[pos]]

\* stats_max[pos] = stats_max[pos].max(parsed)
update_stats_max(rec) ==
    [pos \in 1..NSel |->
        IF IsSome(selected_val(rec, pos))
        THEN f64_max(stats_max[pos], Unwrap(selected_val(rec, pos)))
        ELSE stats_max[pos]]

update_overall_sum(rec) ==
    [pos \in 1..NSel |->
        IF IsSome(selected_val(rec, pos))
        THEN Add(overall_sum[pos], Unwrap(selected_val(rec, pos)))
        ELSE overall_sum[pos]]

update_overall_sum_sq(rec) ==
    [pos \in 1..NSel |->
        IF IsSome(selected_val(rec, pos))
        THEN Add(overall_sum_sq[pos],
                 Mul(Unwrap(selected_val(rec, pos)), Unwrap(selected_val(rec, pos))))
        ELSE overall_sum_sq[pos]]

\* mutant: the count is bumped for every cell, parsed or not
Mut_update_overall_count(rec) == [pos \in 1..NSel |-> overall_count[pos] + 1]

update_overall_count(rec) ==
    [pos \in 1..NSel |->
        IF IsSome(selected_val(rec, pos)) THEN overall_count[pos] + 1 ELSE overall_count[pos]]

\* mutant: a new group's entry starts from the overall (sum, count) of each column
Mut_update_group_sums(rec) ==
    LET g == group_value(rec)
        any == \E pos \in 1..NSel : IsSome(selected_val(rec, pos))
        entry == IF Unwrap(g) \in DOMAIN group_sums
                 THEN group_sums[Unwrap(g)]
                 ELSE [pos \in 1..NSel |-> <<overall_sum[pos], overall_count[pos]>>]
    IN  IF IsSome(g) /\ any
        THEN MapPut(group_sums, Unwrap(g),
                [pos \in 1..NSel |->
                    IF IsSome(selected_val(rec, pos))
                    THEN <<Add(entry[pos][1], Unwrap(selected_val(rec, pos))), entry[pos][2] + 1>>
                    ELSE entry[pos]])
        ELSE group_sums

\* group_sums.entry(label).or_insert_with(|| vec![(0.0, 0); n]), then entry[pos] += parsed
update_group_sums(rec) ==
    LET g == group_value(rec)
        any == \E pos \in 1..NSel : IsSome(selected_val(rec, pos))
        entry == IF Unwrap(g) \in DOMAIN group_sums
                 THEN group_sums[Unwrap(g)]
                 ELSE vec(<<0, 0>>, NSel)
    IN  IF IsSome(g) /\ any
        THEN MapPut(group_sums, Unwrap(g),
                [pos \in 1..NSel |->
                    IF IsSome(selected_val(rec, pos))
                    THEN <<Add(entry[pos][1], Unwrap(selected_val(rec, pos))), entry[pos][2] + 1>>
                    ELSE entry[pos]])
        ELSE group_sums

\* the biomarker pairs taken only from the rows that enter the regression dataset
Mut_biomarker_pushes(rec, pos) ==
    /\ IsSome(target_val(rec))
    /\ selected_indices[pos] # Unwrap(target_index)
    /\ IsSome(selected_val(rec, pos))
    /\ \A k \in 1..Len(covariate_indices) : IsSome(get_parsed(rec, covariate_indices[k][1]))

\* the biomarker pair loop: every selected column but the target
biomarker_pushes(rec, pos) ==
    /\ IsSome(target_val(rec))
    /\ selected_indices[pos] # Unwrap(target_index)
    /\ IsSome(selected_val(rec, pos))

push_biomarker_x(rec) ==
    [pos \in 1..NSel |->
        IF biomarker_pushes(rec, pos)
        THEN Append(biomarker_x[pos], Unwrap(selected_val(rec, pos)))
        ELSE biomarker_x[pos]]

push_biomarker_y(rec) ==
    [pos \in 1..NSel |->
        IF biomarker_pushes(rec, pos)
        THEN Append(biomarker_y[pos], Unwrap(target_val(rec)))
        ELSE biomarker_y[pos]]

\* the univariate pair loop, taken when no covariate is resolved
univariate_pushes(rec, pos) ==
    /\ IsSome(target_val(rec))
    /\ covariate_indices = <<>>
    /\ IsSome(selected_val(rec, pos))

push_univariate_x(rec) ==
    [pos \in 1..NSel |->
        IF univariate_pushes(rec, pos)
        THEN Append(univariate_x[pos], Unwrap(selected_val(rec, pos)))
        ELSE univariate_x[pos]]

push_univariate_y(rec) ==
    [pos \in 1..NSel |->
        IF univariate_pushes(rec, pos)
        THEN Append(univariate_y[pos], Unwrap(target_val(rec)))
        ELSE univariate_y[pos]]

\* the covariate row of a record: has_all, and the parsed covariate cells
covariate_has_all(rec) ==
    \A k \in 1..Len(covariate_indices) : IsSome(get_parsed(rec, covariate_indices[k][1]))

covariate_row(rec) ==
    [k \in 1..Len(covariate_indices) |-> Unwrap(get_parsed(rec, covariate_indices[k][1]))]

regression_pushes(rec) ==
    /\ IsSome(target_val(rec))
    /\ covariate_indices # <<>>
    /\ covariate_has_all(rec)

push_regression_rows(rec) ==
    IF regression_pushes(rec) THEN Append(regression_rows, covariate_row(rec))
    ELSE regression_rows

\* mutant: the target is pushed for every row whose target parses, complete or not
Mut_push_regression_targets(rec) ==
    IF IsSome(target_val(rec)) /\ covariate_indices # <<>>
    THEN Append(regression_targets, Unwrap(target_val(rec)))
    ELSE regression_targets

push_regression_targets(rec) ==
    IF regression_pushes(rec) THEN Append(regression_targets, Unwrap(target_val(rec)))
    ELSE regression_targets

\* boxplot_values.entry(label).or_default().push(val)
push_boxplot_values(rec) ==
    LET g == group_value(rec)
        v == IF IsSome(boxplot_index) THEN get_parsed(rec, Unwrap(boxplot_index)) ELSE None
        old == IF Unwrap(g) \in DOMAIN boxplot_values THEN boxplot_values[Unwrap(g)] ELSE <<>>
    IN  IF IsSome(g) /\ IsSome(boxplot_index) /\ IsSome(v)
        THEN MapPut(boxplot_values, Unwrap(g), Append(old, Unwrap(v)))
        ELSE boxplot_values

\* -------------------------------------------------- descriptive statistics

\* s[lo] + ... + s[hi]
RECURSIVE RatSumRange(_, _, _)
RatSumRange(s, lo, hi) ==
    IF lo > hi THEN RatInt(0)
    ELSE IF lo = hi THEN s[lo]
    ELSE RatAdd(RatSumRange(s, lo, (lo + hi) \div 2), RatSumRange(s, (lo + hi) \div 2 + 1, hi))

RatSumSeq(s) == RatSumRange(s, 1, Len(s))

\* slice::sort_by with a closure of the form partial_cmp(..).unwrap_or(Equal), for a slice of
\* Len(nan) elements: less[i][j] says the closure answers Less for the elements at i and j,
\* nan[i] that the key of the element at i is a NaN, for which the closure answers Equal
\* whatever the other element. The insertion sort of the standard library takes the elements from
\* left to right and moves each one left while the closure answers Less for it and the
\* element before it. A NaN is therefore never moved and never passed: it keeps its place,
\* and the elements between two NaNs come to stand in stable order among themselves.
\* The value at k is the place in the slice of the element that the sort leaves at k
sort_by(less, nan) ==
    LET n == Len(nan)
        first(i) == IF \E j \in 1..i : nan[j]
                    THEN 1 + CHOOSE j \in 1..i : nan[j] /\ \A k \in (j + 1)..i : ~nan[k]
                    ELSE 1
        last(i) == IF \E j \in i..n : nan[j]
                   THEN (CHOOSE j \in i..n : nan[j] /\ \A k \in i..(j - 1) : ~nan[k]) - 1
                   ELSE n
        place == [i \in 1..n |->
                    IF nan[i] THEN i
                    ELSE first(i) + Cardinality({j \in first(i)..last(i) :
                                                    less[j][i] \/ (j < i /\ ~less[i][j])})]
    IN  [k \in 1..n |-> CHOOSE i \in 1..n : place[i] = k]

\* col.sort_by(|a, b| a.partial_cmp(b).unwrap_or(Equal)): on numbers, the stable ascending
\* order
sort_asc(s) ==
    LET less == [i \in 1..Len(s) |-> [j \in 1..Len(s) |-> Lt(s[i], s[j])]]
        nan == [i \in 1..Len(s) |-> IsNaN(s[i])]
        from == sort_by(less, nan)
    IN  [k \in 1..Len(s) |-> s[from[k]]]

\* std_dev(values, mean), as its square: the sample variance, 0 below two values
std_dev_sq(values, mean) ==
    IF Len(values) < 2 THEN RatInt(0)
    ELSE RatDiv(
            RatSumSeq([i \in 1..Len(values) |->
                RatMul(RatSub(RatInt(values[i]), mean), RatSub(RatInt(values[i]), mean))]),
            RatInt(Len(values) - 1))

\* the median of the sorted, non-empty col
median_of(col) ==
    LET count == Len(col)
    IN  IF count % 2 = 0
        THEN RatDiv(RatInt(Add(col[count \div 2], col[count \div 2 + 1])), RatInt(2))
        ELSE RatInt(col[count \div 2 + 1])

\* one DescriptiveStat; mean, std_dev_sq and median are rationals
descriptive_stat(pos, values, mins, maxes) ==
    LET col == sort_asc(values[pos])
        count == Len(col)
        mean == Rat(SumSeq(col), count)
    IN  [column |-> column_label(selected_indices[pos]),
         count |-> count,
         mean |-> mean,
         std_dev_sq |-> std_dev_sq(col, mean),
         min |-> mins[pos],
         median |-> median_of(col),
         max |-> maxes[pos]]

\* mutant: a column with a single value is skipped too
Mut_descriptive_stats_from(pos, values, mins, maxes) ==
    Concat([k \in 1..(NSel - pos + 1) |->
        IF Len(values[k + pos - 1]) < 2 THEN <<>>
        ELSE <<descriptive_stat(k + pos - 1, values, mins, maxes)>>])

\* the loop of build_descriptive_stats from position pos on: an entry per column with a value
descriptive_stats_from(pos, values, mins, maxes) ==
    Concat([k \in 1..(NSel - pos + 1) |->
        IF Len(values[k + pos - 1]) = 0 THEN <<>>
        ELSE <<descriptive_stat(k + pos - 1, values, mins, maxes)>>])

build_descriptive_stats(values, mins, maxes) == descriptive_stats_from(1, values, mins, maxes)

\* ------------------------------------------------------- regression engine

\* A matrix is the sequence of its rows; x and y hold integers.

\* x.transpose() * x
xtx_of(x) ==
    LET k == Len(x[1])
    IN  [i \in 1..k |-> [j \in 1..k |-> SumSeq([r \in 1..Len(x) |-> Mul(x[r][i], x[r][j])])]]

\* x.transpose() * y
xty_of(x, y) == [i \in 1..Len(x[1]) |-> SumSeq([r \in 1..Len(x) |-> Mul(x[r][i], y[r])])]

\* m without row i and column j
minor(m, i, j) ==
    [r \in 1..(Len(m) - 1) |->
        [c \in 1..(Len(m) - 1) |->
            m[IF r < i THEN r ELSE r + 1][IF c < j THEN c ELSE c + 1]]]

RECURSIVE det(_)
det(m) ==
    IF Len(m) = 1 THEN m[1][1]
    ELSE SumSeq([j \in 1..Len(m) |->
            Mul(Mul(IF j % 2 = 1 THEN 1 ELSE -1, m[1][j]), det(minor(m, 1, j)))])

cofactor(m, i, j) ==
    Mul(IF (i + j) % 2 = 0 THEN 1 ELSE -1, IF Len(m) = 1 THEN 1 ELSE det(minor(m, i, j)))

\* mutant: the inverse is computed whatever the determinant
Mut_try_inverse(m) ==
    Some([i \in 1..Len(m) |-> [j \in 1..Len(m) |-> Rat(cofactor(m, j, i), det(m))]])

\* Matrix::try_inverse: None for a singular matrix, else the inverse (adjugate / determinant)
try_inverse(m) ==
    IF det(m) = 0 THEN None
    ELSE Some([i \in 1..Len(m) |-> [j \in 1..Len(m) |-> Rat(cofactor(m, j, i), det(m))]])

\* ols_fit with r2 = ss_res / ss_tot, the `1.0 -` left out
Mut_ols_fit(x, y) ==
    LET xtx_inv == try_inverse(xtx_of(x))
        k == Len(x[1])
        n == Len(y)
        xty == xty_of(x, y)
        beta == [i \in 1..k |->
                    RatSumSeq([j \in 1..k |-> RatMul(Unwrap(xtx_inv)[i][j], RatInt(xty[j]))])]
        y_hat == [r \in 1..n |-> RatSumSeq([i \in 1..k |-> RatMul(RatInt(x[r][i]), beta[i])])]
        mean_y == Rat(SumSeq(y), n)
        ss_tot == RatSumSeq([r \in 1..n |->
                      RatMul(RatSub(RatInt(y[r]), mean_y), RatSub(RatInt(y[r]), mean_y))])
        ss_res == RatSumSeq([r \in 1..n |->
                      RatMul(RatSub(RatInt(y[r]), y_hat[r]), RatSub(RatInt(y[r]), y_hat[r]))])
        r2 == IF RatLt(RatInt(0), ss_tot) THEN RatDiv(ss_res, ss_tot) ELSE RatInt(0)
    IN  IF xtx_inv = None THEN None
        ELSE Some(<<beta[1], SubSeq(beta, 2, k), r2>>)

\* ols_fit(x, y): None, or Some(<<intercept, coefficients, r2>>)
ols_fit(x, y) ==
    LET xtx_inv == try_inverse(xtx_of(x))
        k == Len(x[1])
        n == Len(y)
        xty == xty_of(x, y)
        beta == [i \in 1..k |->
                    RatSumSeq([j \in 1..k |-> RatMul(Unwrap(xtx_inv)[i][j], RatInt(xty[j]))])]
        y_hat == [r \in 1..n |-> RatSumSeq([i \in 1..k |-> RatMul(RatInt(x[r][i]), beta[i])])]
        mean_y == Rat(SumSeq(y), n)
        ss_tot == RatSumSeq([r \in 1..n |->
                      RatMul(RatSub(RatInt(y[r]), mean_y), RatSub(RatInt(y[r]), mean_y))])
        ss_res == RatSumSeq([r \in 1..n |->
                      RatMul(RatSub(RatInt(y[r]), y_hat[r]), RatSub(RatInt(y[r]), y_hat[r]))])
        r2 == IF RatLt(RatInt(0), ss_tot)
              THEN RatSub(RatInt(1), RatDiv(ss_res, ss_tot))
              ELSE RatInt(0)
    IN  IF xtx_inv = None THEN None
        ELSE Some(<<beta[1], SubSeq(beta, 2, k), r2>>)

\* mutant: the coefficients are taken one place early (beta[0..k] for beta[1..=k])
Mut_regression_result(target_name, predictors, fit, n) ==
    [target |-> target_name,
     predictors |-> predictors,
     intercept |-> fit[1],
     coefficients |-> SubSeq(<<fit[1]>> \o fit[2], 1, Len(fit[2])),
     r2 |-> fit[3],
     n |-> n]

regression_result(target_name, predictors, fit, n) ==
    [target |-> target_name,
     predictors |-> predictors,
     intercept |-> fit[1],
     coefficients |-> fit[2],
     r2 |-> fit[3],
     n |-> n]

\* build_regressions(config.target_column, covariate_indices, rows, targets)
build_regressions(target, covariates, rows, targets) ==
    IF /\ IsSome(target)
       /\ Len(rows) # 0
       /\ Len(rows) = Len(targets)
       /\ Len(covariates) > 0
    THEN LET x == [r \in 1..Len(rows) |-> <<1>> \o rows[r]]
             fit == ols_fit(x, targets)
         IN  IF IsSome(fit)
             THEN <<regression_result(Unwrap(target),
                        [k \in 1..Len(covariates) |-> covariates[k][2]],
                        Unwrap(fit), Len(rows))>>
             ELSE <<>>
    ELSE <<>>

\* the loop body of build_univariate_regressions for position pos
univariate_regression(target_name, pos, x_values, y_values) ==
    IF Len(x_values[pos]) < 2 \/ Len(x_values[pos]) # Len(y_values[pos]) THEN <<>>
    ELSE LET n == Len(x_values[pos])
             x == [r \in 1..n |-> <<1, x_values[pos][r]>>]
             fit == ols_fit(x, y_values[pos])
         IN  IF IsSome(fit)
             THEN <<regression_result(target_name,
                        <<column_label(selected_indices[pos])>>, Unwrap(fit), n)>>
             ELSE <<>>

\* the loop of build_univariate_regressions from position pos on
univariate_regressions_from(pos, target_name, x_values, y_values) ==
    Concat([k \in 1..(NSel - pos + 1) |->
        univariate_regression(target_name, k + pos - 1, x_values, y_values)])

\* build_univariate_regressions(config.target_column, headers, selected_indices, x, y)
build_univariate_regressions(target, x_values, y_values) ==
    IF IsSome(target) THEN univariate_regressions_from(1, Unwrap(target), x_values, y_values)
    ELSE <<>>

\* ----------------------------------------------------------- novelty scorer

\* the fold over `for (_group, sums) in group_sums`, the map iterated in the order `order`
RECURSIVE max_delta_over(_, _, _, _, _)

\* the fold keeping the deviation of the group visited last instead of the greatest
Mut_max_delta_over(order, sums_of, pos, mean, max_delta) ==
    IF Len(order) = 0 THEN max_delta
    ELSE LET sum == sums_of[Head(order)][pos][1]
             count == sums_of[Head(order)][pos][2]
         IN  max_delta_over(Tail(order), sums_of, pos, mean,
                IF count > 0
                THEN RatAbs(RatSub(Rat(sum, count), mean))
                ELSE max_delta)

max_delta_over(order, sums_of, pos, mean, max_delta) ==
    IF Len(order) = 0 THEN max_delta
    ELSE LET sum == sums_of[Head(order)][pos][1]
             count == sums_of[Head(order)][pos][2]
         IN  max_delta_over(Tail(order), sums_of, pos, mean,
                IF count > 0
                THEN RatMax(max_delta, RatAbs(RatSub(Rat(sum, count), mean)))
                ELSE max_delta)

\* the score without `.min(1.0)`
Mut_novelty_score_sq(max_delta, variance) ==
    IF RatLt(RatInt(0), variance)
    THEN RatDiv(RatMul(max_delta, max_delta), RatMul(RatInt(9), variance))
    ELSE RatInt(0)

\* the score of a column, as its square: min(max_delta / (3 * std), 1)^2, 0 when std is 0
novelty_score_sq(max_delta, variance) ==
    IF RatLt(RatInt(0), variance)
    THEN RatMin(RatDiv(RatMul(max_delta, max_delta), RatMul(RatInt(9), variance)), RatInt(1))
    ELSE RatInt(0)

novelty_score(pos, sums, sums_sq, counts, sums_of, order) ==
    LET mean == Rat(sums[pos], counts[pos])
        variance == RatSub(Rat(sums_sq[pos], counts[pos]), RatMul(mean, mean))
        max_delta == max_delta_over(order, sums_of, pos, mean, RatInt(0))
    IN  [column |-> column_label(selected_indices[pos]),
         score_sq |-> novelty_score_sq(max_delta, variance),
         rationale |-> "Scaled deviation of group means from overall mean (0-1)"]

\* mutant: one aggregated value is enough for a score
Mut_novelty_scores_from(pos, sums, sums_sq, counts, sums_of, order) ==
    Concat([k \in 1..(NSel - pos + 1) |->
        IF counts[k + pos - 1] < 1 THEN <<>>
        ELSE <<novelty_score(k + pos - 1, sums, sums_sq, counts, sums_of, order)>>])

\* the loop of build_novelty_scores from position pos on: a score per column with two values
novelty_scores_from(pos, sums, sums_sq, counts, sums_of, order) ==
    Concat([k \in 1..(NSel - pos + 1) |->
        IF counts[k + pos - 1] < 2 THEN <<>>
        ELSE <<novelty_score(k + pos - 1, sums, sums_sq, counts, sums_of, order)>>])

\* build_novelty_scores(...), group_sums iterated in the order `order`
build_novelty_scores(sums, sums_sq, counts, sums_of, order) ==
    novelty_scores_from(1, sums, sums_sq, counts, sums_of, order)

\* ---------------------------------------------------------- biomarker ranker

\* A correlation r is carried as <<sign, r * r>>: sign in {-1, 0, 1}, r * r rational; a NaN
\* correlation is <<0, RatNaN>>.
ZeroCorrelation == <<0, RatInt(0)>>

\* corr >= 0.0, false for NaN
CorrGe0(corr) == ~IsRatNaN(corr[2]) /\ corr[1] >= 0

Sign(n) == IF n > 0 THEN 1 ELSE IF n < 0 THEN -1 ELSE 0

\* correlation(x, y): num / (sqrt(denom_x) * sqrt(denom_y)), 0 when a denominator is 0
correlation(x, y) ==
    LET n == Min2(Len(x), Len(y))
        mean_x == Rat(SumSeq(SubSeq(x, 1, n)), n)
        mean_y == Rat(SumSeq(SubSeq(y, 1, n)), n)
        dx(i) == RatSub(RatInt(x[i]), mean_x)
        dy(i) == RatSub(RatInt(y[i]), mean_y)
        num == RatSumSeq([i \in 1..n |-> RatMul(dx(i), dy(i))])
        denom_x == RatSumSeq([i \in 1..n |-> RatMul(dx(i), dx(i))])
        denom_y == RatSumSeq([i \in 1..n |-> RatMul(dy(i), dy(i))])
    IN  IF n < 2 THEN ZeroCorrelation
        ELSE IF denom_x = RatInt(0) \/ denom_y = RatInt(0) THEN ZeroCorrelation
        ELSE <<Sign(num[1]), RatDiv(RatMul(num, num), RatMul(denom_x, denom_y))>>

\* mutant: the loop body also skips a column whose paired values are all identical
Mut_biomarker_candidate(pos, x_values, y_values) ==
    IF \/ Len(x_values[pos]) < 3
       \/ Len(x_values[pos]) # Len(y_values[pos])
       \/ \A i \in 1..Len(x_values[pos]) : x_values[pos][i] = x_values[pos][1]
    THEN <<>>
    ELSE LET corr == correlation(x_values[pos], y_values[pos])
         IN  <<[column |-> column_label(selected_indices[pos]),
                score_sq |-> corr[2],
                correlation |-> corr,
                direction |-> IF CorrGe0(corr) THEN "positive" ELSE "negative",
                notes |-> "Pearson correlation with target (age). Higher absolute correlation suggests stronger biomarker signal."]>>

\* mutant: two paired observations are enough for an entry
Mut_biomarker_candidate_pairs(pos, x_values, y_values) ==
    IF Len(x_values[pos]) < 2 \/ Len(x_values[pos]) # Len(y_values[pos]) THEN <<>>
    ELSE LET corr == correlation(x_values[pos], y_values[pos])
         IN  <<[column |-> column_label(selected_indices[pos]),
                score_sq |-> corr[2],
                correlation |-> corr,
                direction |-> IF CorrGe0(corr) THEN "positive" ELSE "negative",
                notes |-> "Pearson correlation with target (age). Higher absolute correlation suggests stronger biomarker signal."]>>

\* the loop body of build_biomarker_candidates for position pos
biomarker_candidate(pos, x_values, y_values) ==
    IF Len(x_values[pos]) < 3 \/ Len(x_values[pos]) # Len(y_values[pos]) THEN <<>>
    ELSE LET corr == correlation(x_values[pos], y_values[pos])
         IN  <<[column |-> column_label(selected_indices[pos]),
                score_sq |-> corr[2],
                correlation |-> corr,
                direction |-> IF CorrGe0(corr) THEN "positive" ELSE "negative",
                notes |-> "Pearson correlation with target (age). Higher absolute correlation suggests stronger biomarker signal."]>>

\* the loop of build_biomarker_candidates from position pos on
biomarker_candidates_from(pos, x_values, y_values) ==
    Concat([k \in 1..(NSel - pos + 1) |-> biomarker_candidate(k + pos - 1, x_values, y_values)])

\* candidates.sort_by(|a, b| b.score.partial_cmp(&a.score).unwrap_or(Equal)): the closure
\* answers Less for a and b when b's score is the smaller; on numbers, the stable descending
\* order
sort_by_score(s) ==
    LET less == [i \in 1..Len(s) |-> [j \in 1..Len(s) |-> RatLt(s[j].score_sq, s[i].score_sq)]]
        nan == [i \in 1..Len(s) |-> IsRatNaN(s[i].score_sq)]
        from == sort_by(less, nan)
    IN  [k \in 1..Len(s) |-> s[from[k]]]

\* candidates.truncate(50)
TruncateTo == 50

build_biomarker_candidates(target, x_values, y_values) ==
    IF target = None THEN <<>>
    ELSE take(sort_by_score(biomarker_candidates_from(1, x_values, y_values)), TruncateTo)

\* let size = stats_values.len().min(20): the columns of the heatmap
HeatmapColumns == 20

\* ------------------------------------------------------------- the box plot

\* the labels of the specifications in the order of String::cmp (byte order)
LabelOrder == <<"1", "2", "A", "B", "C", "NaN", "x">>

\* mutant: the last max_groups labels are kept instead of the first
Mut_boxplot_groups(grouped, max_groups) ==
    LET InMap(l) == l \in DOMAIN grouped
        sorted == SelectSeq(LabelOrder, InMap)
        n == IF max_groups < Len(sorted) THEN max_groups ELSE Len(sorted)
    IN  SubSeq(sorted, Len(sorted) - n + 1, Len(sorted))

\* groups.sort_by(|a, b| a.0.cmp(&b.0)); groups.truncate(max_groups): the labels kept
boxplot_groups(grouped, max_groups) ==
    LET InMap(l) == l \in DOMAIN grouped
        sorted == SelectSeq(LabelOrder, InMap)
    IN  SubSeq(sorted, 1, IF max_groups < Len(sorted) THEN max_groups ELSE Len(sorted))

\* (q1, median, q3, min, max) of one group, v the sorted copy of its values
boxplot_stat(values) ==
    LET v == sort_asc(values)
        n == Len(v)
    IN  [q1 |-> v[n \div 4 + 1],
         median |-> v[n \div 2 + 1],
         q3 |-> v[(n * 3) \div 4 + 1],
         min |-> v[1],
         max |-> v[n]]

\* the stats vector of write_boxplot: one entry per kept group with a value
boxplot_stats(grouped, max_groups) ==
    LET groups == boxplot_groups(grouped, max_groups)
        HasValue(l) == Len(grouped[l]) # 0
        drawn == SelectSeq(groups, HasValue)
    IN  [i \in 1..Len(drawn) |-> boxplot_stat(grouped[drawn[i]])]

\* -------------------------------------------------------------- the summary

summary_text(n_stats, n_regressions, n_novelty, n_biomarkers) ==
    "Computed descriptive statistics for " \o ToString(n_stats)
        \o " columns. Generated " \o ToString(n_regressions)
        \o " regression model(s). Novelty scores computed for " \o ToString(n_novelty)
        \o " columns. Biomarker candidates ranked for " \o ToString(n_biomarkers)
        \o " columns."

\* ------------------------------------------------------------- the request

FileNames ==
    {"heatmap.png", "boxplot.png", "descriptive_stats.csv", "regressions.csv",
     "novelty_scores.csv", "biomarker_candidates.csv"}

\* the locals of run_analysis before the header is known, and after they are dropped
NoLocals ==
    /\ headers' = <<>>
    /\ stats_values' = <<>>
    /\ stats_min' = <<>>
    /\ stats_max' = <<>>
    /\ overall_sum' = <<>>
    /\ overall_sum_sq' = <<>>
    /\ overall_count' = <<>>
    /\ group_sums' = EmptyMap
    /\ regression_rows' = <<>>
    /\ regression_targets' = <<>>
    /\ univariate_x' = <<>>
    /\ univariate_y' = <<>>
    /\ biomarker_x' = <<>>
    /\ biomarker_y' = <<>>
    /\ boxplot_values' = EmptyMap

NoResults ==
    /\ descriptive_stats' = <<>>
    /\ regressions' = <<>>
    /\ novelty_scores' = <<>>
    /\ biomarker_candidates' = <<>>
    /\ summary' = ""
    /\ heatmap_path' = None
    /\ boxplot_path' = None

\* a request for dataset `rec` with config `cfg`, before the handler has run
InitWith(rec, cfg) ==
    /\ record = rec
    /\ config = cfg
    /\ request = 1
    /\ peer = 0
    /\ file = <<>>
    /\ pc = "start"
    /\ files = [f \in FileNames |-> 0]
    /\ headers = <<>>
    /\ stats_values = <<>>
    /\ stats_min = <<>>
    /\ stats_max = <<>>
    /\ overall_sum = <<>>
    /\ overall_sum_sq = <<>>
    /\ overall_count = <<>>
    /\ group_sums = EmptyMap
    /\ regression_rows = <<>>
    /\ regression_targets = <<>>
    /\ univariate_x = <<>>
    /\ univariate_y = <<>>
    /\ biomarker_x = <<>>
    /\ biomarker_y = <<>>
    /\ boxplot_values = EmptyMap
    /\ descriptive_stats = <<>>
    /\ regressions = <<>>
    /\ novelty_scores = <<>>
    /\ biomarker_candidates = <<>>
    /\ summary = ""
    /\ heatmap_path = None
    /\ boxplot_path = None

\* a panic unwinds run_analysis: no AnalysisArtifacts, the locals are dropped
Panic ==
    /\ pc' = "panicked"
    /\ file' = <<>>
    /\ NoLocals
    /\ NoResults
    /\ UNCHANGED <<record, peer, config, request, files>>

\* an error return: the handler answers 500, the locals of run_analysis are dropped
Fail ==
    /\ pc' = "failed"
    /\ file' = <<>>
    /\ NoLocals
    /\ NoResults
    /\ UNCHANGED <<record, peer, config, request, files>>

\* the handler is called again for the same dataset id, with config cfg, once the request
\* before it has answered; the output directory is the same and keeps its files
NextRequest(cfg) ==
    /\ pc \in {"done", "failed"}
    /\ request' = request + 1
    /\ config' = cfg
    /\ pc' = "start"
    /\ file' = <<>>
    /\ NoLocals
    /\ NoResults
    /\ UNCHANGED <<record, peer, files>>

\* mutant: the stats file is created along with the directory
Mut_CreateDir ==
    /\ pc = "start"
    /\ pc' = "open"
    /\ files' = [files EXCEPT !["descriptive_stats.csv"] = request]
    /\ UNCHANGED <<record, peer, config, file, request, locals, results, paths>>

\* fs::create_dir_all(&output_dir)
CreateDir ==
    /\ pc = "start"
    /\ pc' = "open"
    /\ UNCHANGED <<record, peer, config, file, files, request, locals, results, paths>>

CreateDirFail ==
    /\ pc = "start"
    /\ Fail

\* the vectors sized by selected_indices.len(), for the header hs
InitLocals(hs) ==
    /\ headers' = hs
    /\ stats_values' = vec(<<>>, NSel')
    /\ stats_min' = vec(F64_INFINITY, NSel')
    /\ stats_max' = vec(F64_NEG_INFINITY, NSel')
    /\ overall_sum' = vec(0, NSel')
    /\ overall_sum_sq' = vec(0, NSel')
    /\ overall_count' = vec(0, NSel')
    /\ group_sums' = EmptyMap
    /\ regression_rows' = <<>>
    /\ regression_targets' = <<>>
    /\ univariate_x' = vec(<<>>, NSel')
    /\ univariate_y' = vec(<<>>, NSel')
    /\ biomarker_x' = vec(<<>>, NSel')
    /\ biomarker_y' = vec(<<>>, NSel')
    /\ boxplot_values' = EmptyMap

\* ReaderBuilder ... from_path, then rdr.headers() of a file with a header line
OpenWithHeaders ==
    /\ pc = "open"
    /\ record.has_headers
    /\ UNCHANGED <<record, peer, config, file, files, request, results, paths>>
    /\ InitLocals(record.header_row)
    /\ pc' = "rows"

\* has_headers = false: rdr.records().next() takes the first record off the reader
\* and only its length is used
InferHeaders(first) ==
    /\ pc = "open"
    /\ ~record.has_headers
    /\ UNCHANGED <<record, peer, config, files, request, results, paths>>
    /\ file' = <<first>>
    /\ InitLocals([i \in 1..Len(first) |-> ColumnName(i)])
    /\ pc' = "rows"

\* has_headers = false and the file holds no record: no column
InferHeadersEmpty ==
    /\ pc = "open"
    /\ ~record.has_headers
    /\ UNCHANGED <<record, peer, config, file, files, request, results, paths>>
    /\ InitLocals(<<>>)
    /\ pc' = "rows_empty"

\* from_path fails, or the header line or first record cannot be read
OpenFail ==
    /\ pc = "open"
    /\ Fail

\* one turn of `for record in rdr.records()`
ProcessRecord(rec) ==
    /\ pc = "rows"
    /\ file' = Append(file, rec)
    /\ stats_values' = push_stats_values(rec)
    /\ stats_min' = update_stats_min(rec)
    /\ stats_max' = update_stats_max(rec)
    /\ overall_sum' = update_overall_sum(rec)
    /\ overall_sum_sq' = update_overall_sum_sq(rec)
    /\ overall_count' = update_overall_count(rec)
    /\ group_sums' = update_group_sums(rec)
    /\ biomarker_x' = push_biomarker_x(rec)
    /\ biomarker_y' = push_biomarker_y(rec)
    /\ univariate_x' = push_univariate_x(rec)
    /\ univariate_y' = push_univariate_y(rec)
    /\ regression_rows' = push_regression_rows(rec)
    /\ regression_targets' = push_regression_targets(rec)
    /\ boxplot_values' = push_boxplot_values(rec)
    /\ UNCHANGED <<record, peer, config, pc, files, request, headers, results, paths>>

\* `let record = record?;` on a record the reader cannot parse
RecordError ==
    /\ pc = "rows"
    /\ Fail

\* the reader is exhausted: the four builders and the summary, the HashMap group_sums
\* iterated in the order `order`
BuildResults(order) ==
    /\ descriptive_stats' = build_descriptive_stats(stats_values, stats_min, stats_max)
    /\ regressions' =
            IF covariate_indices = <<>>
            THEN build_univariate_regressions(config.target_column, univariate_x, univariate_y)
            ELSE build_regressions(config.target_column, covariate_indices,
                                   regression_rows, regression_targets)
    /\ novelty_scores' =
            build_novelty_scores(overall_sum, overall_sum_sq, overall_count, group_sums, order)
    /\ biomarker_candidates' =
            build_biomarker_candidates(config.target_column, biomarker_x, biomarker_y)
    /\ summary' = summary_text(Len(descriptive_stats'), Len(regressions'),
                               Len(novelty_scores'), Len(biomarker_candidates'))

EndOfRecords ==
    /\ pc \in {"rows", "rows_empty"}
    /\ \E order \in Enumerations(DOMAIN group_sums) : BuildResults(order)
    /\ pc' = "heatmap"
    /\ UNCHANGED <<record, peer, config, file, files, request, locals, paths>>

\* slices of up to this many elements are insertion-sorted by sort_by; longer ones are
\* merged, and the merge may panic when the comparator is no total order
SmallSortLen == 20

\* a.partial_cmp(b).unwrap_or(Equal) is a total order on col: it is unless col holds a NaN,
\* which compares Equal to everything, besides two numbers of which one is Less
TotalOrderOn(col) ==
    ~(/\ \E i \in 1..Len(col) : IsNaN(col[i])
      /\ \E i, j \in 1..Len(col) : Lt(col[i], col[j]))

\* build_descriptive_stats: col.sort_by(...) panics ("user-provided comparison function does
\* not correctly implement a total order"), which it may on a long slice when the closure
\* is no total order; EndOfRecords is the same call returning
SortPanics ==
    /\ pc = "rows"
    /\ \E pos \in 1..NSel :
            Len(stats_values[pos]) > SmallSortLen /\ ~TotalOrderOn(stats_values[pos])
    /\ Panic

\* write_heatmap(&path, &stats_values, &labels) when stats_values is not empty
WriteHeatmap ==
    /\ pc = "heatmap"
    /\ Len(stats_values) # 0
    /\ files' = [files EXCEPT !["heatmap.png"] = request]
    /\ heatmap_path' = Some("heatmap.png")
    /\ pc' = "boxplot"
    /\ UNCHANGED <<record, peer, config, file, request, locals, results, boxplot_path>>

\* stats_values is empty: heatmap_path is None
SkipHeatmap ==
    /\ pc = "heatmap"
    /\ Len(stats_values) = 0
    /\ heatmap_path' = None
    /\ pc' = "boxplot"
    /\ UNCHANGED <<record, peer, config, file, files, request, locals, results, boxplot_path>>

\* write_heatmap(...)? returns the error of the drawing backend
WriteHeatmapFail ==
    /\ pc = "heatmap"
    /\ Len(stats_values) # 0
    /\ Fail

\* write_boxplot(&path, &boxplot_values, config.max_groups) when boxplot_values is not empty;
\* run_analysis then returns Ok(AnalysisArtifacts)
WriteBoxplot ==
    /\ pc = "boxplot"
    /\ DOMAIN boxplot_values # {}
    /\ files' = [files EXCEPT !["boxplot.png"] = request]
    /\ boxplot_path' = Some("boxplot.png")
    /\ pc' = "stats_csv"
    /\ UNCHANGED <<record, peer, config, file, request, locals, results, heatmap_path>>

\* boxplot_values is empty: boxplot_path is None
SkipBoxplot ==
    /\ pc = "boxplot"
    /\ DOMAIN boxplot_values = {}
    /\ boxplot_path' = None
    /\ pc' = "stats_csv"
    /\ UNCHANGED <<record, peer, config, file, files, request, locals, results, heatmap_path>>

WriteBoxplotFail ==
    /\ pc = "boxplot"
    /\ DOMAIN boxplot_values # {}
    /\ Fail

\* one of the handler's four write_*_csv(...).await calls
write_csv(at, name, then) ==
    /\ pc = at
    /\ files' = [files EXCEPT ![name] = request]
    /\ pc' = then
    /\ UNCHANGED <<record, peer, config, file, request, locals, results, paths>>

WriteStatsCsv == write_csv("stats_csv", "descriptive_stats.csv", "regression_csv")

WriteRegressionCsv == write_csv("regression_csv", "regressions.csv", "novelty_csv")

WriteNoveltyCsv == write_csv("novelty_csv", "novelty_scores.csv", "biomarker_csv")

\* the last write; the handler then builds the response and answers success
WriteBiomarkerCsv == write_csv("biomarker_csv", "biomarker_candidates.csv", "done")

\* fs::write fails in one of the four: .map_err(|_| INTERNAL_SERVER_ERROR)?
WriteCsvFail ==
    /\ pc \in {"stats_csv", "regression_csv", "novelty_csv", "biomarker_csv"}
    /\ Fail

\* ---------------------------------------------- the general specification

\* the header line column_1, ..., column_n
HeaderRow(n) == [i \in 1..n |-> ColumnName(i)]

\* an optional column name among the first n
OptNames(n) == {None} \cup {Some(ColumnName(i)) : i \in 1..n}

\* the cells of the general specification: one text that is no number, and 1..MaxNum
Cells == {"x"} \cup {ToString(n) : n \in 1..MaxNum}

\* the records of n fields over the cells C
RecordsOver(C, n) == [1..n -> C]

\* datasets with a header line of 1..MaxCols columns, and datasets without a header line
Datasets ==
    {[has_headers |-> TRUE, header_row |-> HeaderRow(n)] : n \in 1..MaxCols}
        \cup {[has_headers |-> FALSE, header_row |-> <<>>]}

\* univariate configs: no covariates, no box plot, no cap below the column count
Configs ==
    {[target_column |-> t, group_column |-> g, covariates |-> <<>>,
      boxplot_column |-> None, max_columns |-> MaxCols, max_groups |-> MaxCols] :
        t \in OptNames(MaxCols), g \in OptNames(MaxCols)}

Init == \E rec \in Datasets, cfg \in Configs : InitWith(rec, cfg)

InferHeadersAny ==
    \E n \in 1..MaxCols : \E first \in RecordsOver(Cells, n) : InferHeaders(first)

ReadRecord ==
    /\ Len(file) < MaxRows
    /\ \E rec \in RecordsOver(Cells, Len(headers)) : ProcessRecord(rec)

Next ==
    \/ CreateDir
    \/ OpenWithHeaders
    \/ InferHeadersAny
    \/ InferHeadersEmpty
    \/ ReadRecord
    \/ EndOfRecords
    \/ WriteHeatmap
    \/ SkipHeatmap
    \/ SkipBoxplot
    \/ WriteStatsCsv
    \/ WriteRegressionCsv
    \/ WriteNoveltyCsv
    \/ WriteBiomarkerCsv

Spec == Init /\ [][Next]_vars

\* ------------------------------------------- the column-cap specification

\* columns of a dataset of the column-cap specification
MaxWideCols == 3
\* records of a dataset of the column-cap specification
MaxWideRows == 1

\* all-numeric cells
NumericCells == {"1", "2"}

WideDatasets == {[has_headers |-> TRUE, header_row |-> HeaderRow(n)] : n \in 1..MaxWideCols}

\* every cap 0..MaxWideCols, every group column
WideConfigs ==
    {[target_column |-> None, group_column |-> g, covariates |-> <<>>,
      boxplot_column |-> None, max_columns |-> k, max_groups |-> MaxWideCols] :
        g \in OptNames(MaxWideCols), k \in 0..MaxWideCols}

InitCols == \E rec \in WideDatasets, cfg \in WideConfigs : InitWith(rec, cfg)

ReadNumericRecord ==
    /\ Len(file) < MaxWideRows
    /\ \E rec \in RecordsOver(NumericCells, Len(headers)) : ProcessRecord(rec)

NextCols ==
    \/ CreateDir
    \/ OpenWithHeaders
    \/ ReadNumericRecord
    \/ EndOfRecords
    \/ WriteHeatmap
    \/ SkipBoxplot
    \/ WriteStatsCsv
    \/ WriteRegressionCsv
    \/ WriteNoveltyCsv
    \/ WriteBiomarkerCsv

SpecCols == InitCols /\ [][NextCols]_vars

\* ----------------------------------------------- the file-write specification

\* records of a dataset of the file-write specification
MaxIoRows == 2

\* a value column and a group column
IoDatasets == {[has_headers |-> TRUE, header_row |-> HeaderRow(2)]}

\* with and without a box plot
IoConfigs ==
    {[target_column |-> None, group_column |-> g, covariates |-> <<>>,
      boxplot_column |-> b, max_columns |-> 2, max_groups |-> 2] :
        g \in {None, Some(ColumnName(2))}, b \in {None, Some(ColumnName(1))}}

InitIo == \E rec \in IoDatasets, cfg \in IoConfigs : InitWith(rec, cfg)

ReadIoRecord ==
    /\ Len(file) < MaxIoRows
    /\ \E rec \in RecordsOver(Cells, Len(headers)) : ProcessRecord(rec)

\* every step of the handler, the failing ones included
NextIo ==
    \/ CreateDir
    \/ CreateDirFail
    \/ OpenWithHeaders
    \/ OpenFail
    \/ ReadIoRecord
    \/ RecordError
    \/ EndOfRecords
    \/ WriteHeatmap
    \/ WriteHeatmapFail
    \/ WriteBoxplot
    \/ SkipBoxplot
    \/ WriteBoxplotFail
    \/ WriteStatsCsv
    \/ WriteRegressionCsv
    \/ WriteNoveltyCsv
    \/ WriteBiomarkerCsv
    \/ WriteCsvFail

SpecIo == InitIo /\ [][NextIo]_vars

\* ------------------------------------------------ the ranking specification

\* columns of a dataset of the ranking specification: the target and MaxRankCols - 1 markers
MaxRankCols == 52
\* records of a dataset of the ranking specification
MaxRankRows == 3

RankDatasets ==
    {[has_headers |-> TRUE, header_row |-> HeaderRow(n)] :
        n \in (MaxRankCols - 1)..MaxRankCols}

\* the target is the first column, every column is selected
RankConfigs ==
    {[target_column |-> Some(ColumnName(1)), group_column |-> None, covariates |-> <<>>,
      boxplot_column |-> None, max_columns |-> MaxRankCols, max_groups |-> 1]}

InitRank == \E rec \in RankDatasets, cfg \in RankConfigs : InitWith(rec, cfg)

\* records of n cells: the target cell t, and marker c holding (c * (t + 1)) % 5
RankRecords(n) ==
    {[c \in 1..n |-> ToString(IF c = 1 THEN t ELSE (c * (t + 1)) % 5)] : t \in 0..2}

ReadRankRecord ==
    /\ Len(file) < MaxRankRows
    /\ \E rec \in RankRecords(Len(headers)) : ProcessRecord(rec)

NextRank ==
    \/ CreateDir
    \/ OpenWithHeaders
    \/ ReadRankRecord
    \/ EndOfRecords
    \/ WriteHeatmap
    \/ SkipBoxplot
    \/ WriteStatsCsv
    \/ WriteRegressionCsv
    \/ WriteNoveltyCsv
    \/ WriteBiomarkerCsv

SpecRank == InitRank /\ [][NextRank]_vars

\* ------------------------------------------------ the novelty specification

\* records of a dataset of the novelty specification
MaxNoveltyRows == 11

\* a value column and a label column
NoveltyDatasets == {[has_headers |-> TRUE, header_row |-> HeaderRow(2)]}

NoveltyConfigs ==
    {[target_column |-> None, group_column |-> g, covariates |-> <<>>,
      boxplot_column |-> None, max_columns |-> 2, max_groups |-> 2] :
        g \in {None, Some(ColumnName(2))}}

InitNovelty == \E rec \in NoveltyDatasets, cfg \in NoveltyConfigs : InitWith(rec, cfg)

\* the records a file is made of, in the order a file holds them
NoveltyRecords ==
    << <<"0", "A">>, <<"0", "B">>, <<"1", "A">>, <<"1", "B">>, <<"NaN", "B">> >>

ReadNoveltyRecord ==
    /\ Len(file) < MaxNoveltyRows
    /\ \E k \in 1..Len(NoveltyRecords) :
        /\ IF Len(file) = 0 THEN TRUE
           ELSE \E j \in 1..k : file[Len(file)] = NoveltyRecords[j]
        /\ ProcessRecord(NoveltyRecords[k])

NextNovelty ==
    \/ CreateDir
    \/ OpenWithHeaders
    \/ ReadNoveltyRecord
    \/ EndOfRecords
    \/ WriteHeatmap
    \/ SkipBoxplot
    \/ WriteStatsCsv
    \/ WriteRegressionCsv
    \/ WriteNoveltyCsv
    \/ WriteBiomarkerCsv

SpecNovelty == InitNovelty /\ [][NextNovelty]_vars

\* ---------------------------------------------------- the NaN specification

\* records of a dataset of the NaN specification
MaxNanRows == 3

\* the target and three markers
NanDatasets == {[has_headers |-> TRUE, header_row |-> HeaderRow(4)]}

NanConfigs ==
    {[target_column |-> Some(ColumnName(1)), group_column |-> None, covariates |-> <<>>,
      boxplot_column |-> None, max_columns |-> 4, max_groups |-> 1]}

InitNan == \E rec \in NanDatasets, cfg \in NanConfigs : InitWith(rec, cfg)

\* numbers in the cells of the target and of two markers, a number or NaN in the third marker's
NanRecords ==
    {<<t, a, b, c>> : t \in {"1", "2"}, a \in {"1", "2"}, b \in {"1", "NaN"}, c \in {"1", "2"}}

ReadNanRecord ==
    /\ Len(file) < MaxNanRows
    /\ \E rec \in NanRecords : ProcessRecord(rec)

NextNan ==
    \/ CreateDir
    \/ OpenWithHeaders
    \/ ReadNanRecord
    \/ EndOfRecords
    \/ WriteHeatmap
    \/ SkipBoxplot
    \/ WriteStatsCsv
    \/ WriteRegressionCsv
    \/ WriteNoveltyCsv
    \/ WriteBiomarkerCsv

SpecNan == InitNan /\ [][NextNan]_vars

\* ------------------------------------------------- the line specification

\* records of a dataset of the line specification
MaxOlsRows == 3
\* x cells are the decimal texts of 0..MaxOlsX
MaxOlsX == 2
\* slopes a of the lines y = a * x + b: -MaxOlsSlope..MaxOlsSlope
MaxOlsSlope == 1
\* intercepts b of the lines: 0..MaxOlsIntercept
MaxOlsIntercept == 1

OlsSlopes == (0 - MaxOlsSlope)..MaxOlsSlope

OlsIntercepts == 0..MaxOlsIntercept

\* the predictor x and the target y
OlsDatasets == {[has_headers |-> TRUE, header_row |-> HeaderRow(2)]}

OlsConfigs ==
    {[target_column |-> Some(ColumnName(2)), group_column |-> None, covariates |-> <<>>,
      boxplot_column |-> None, max_columns |-> 2, max_groups |-> 1]}

InitOls == \E rec \in OlsDatasets, cfg \in OlsConfigs : InitWith(rec, cfg)

\* the points of the lines
OlsRecords ==
    {<<ToString(x), ToString(a * x + b)>> : x \in 0..MaxOlsX, a \in OlsSlopes, b \in OlsIntercepts}

\* every record of recs is a point of the line y = a * x + b
PointsOnLine(recs, a, b) ==
    \A r \in 1..Len(recs) :
        Unwrap(parse_f64(recs[r][2])) = a * Unwrap(parse_f64(recs[r][1])) + b

\* the file holds points of one line
ReadOlsRecord ==
    /\ Len(file) < MaxOlsRows
    /\ \E rec \in OlsRecords :
        /\ \E a \in OlsSlopes, b \in OlsIntercepts : PointsOnLine(Append(file, rec), a, b)
        /\ ProcessRecord(rec)

NextOls ==
    \/ CreateDir
    \/ OpenWithHeaders
    \/ ReadOlsRecord
    \/ EndOfRecords
    \/ WriteHeatmap
    \/ SkipBoxplot
    \/ WriteStatsCsv
    \/ WriteRegressionCsv
    \/ WriteNoveltyCsv
    \/ WriteBiomarkerCsv

SpecOls == InitOls /\ [][NextOls]_vars

\* ---------------------------------------------- the covariate specification

\* records of a dataset of the covariate specification
MaxCovRows == 3

\* a column name that no header holds
MissingName == "missing"

\* the target column_1 and the covariates column_2, column_3
CovDatasets == {[has_headers |-> TRUE, header_row |-> HeaderRow(3)]}

\* covariates configured: resolved ones in both orders, a repeated one, unresolved ones
CovConfigs ==
    {[target_column |-> Some(ColumnName(1)), group_column |-> None, covariates |-> cs,
      boxplot_column |-> None, max_columns |-> 3, max_groups |-> 1] :
        cs \in {<<ColumnName(2), MissingName>>, <<ColumnName(2), ColumnName(3)>>,
                <<ColumnName(3), ColumnName(2)>>, <<ColumnName(2), ColumnName(2)>>,
                <<MissingName>>}}

InitCov == \E rec \in CovDatasets, cfg \in CovConfigs : InitWith(rec, cfg)

\* the target and the first covariate may hold a cell that is no number
CovRecords == {<<t, a, b>> : t \in Cells, a \in Cells, b \in NumericCells}

\* at most one record of a file holds an unparseable cell
ReadCovRecord ==
    /\ Len(file) < MaxCovRows
    /\ \E rec \in CovRecords :
            /\ "x" \in Range(rec) => \A r \in 1..Len(file) : "x" \notin Range(file[r])
            /\ ProcessRecord(rec)

\* the request up to the point where run_analysis has built its results
NextCov ==
    \/ CreateDir
    \/ OpenWithHeaders
    \/ ReadCovRecord
    \/ EndOfRecords

SpecCov == InitCov /\ [][NextCov]_vars

\* ================================================================== claims

\* ------------------------------------------- the unresolved-names specification

\* records of a dataset of the unresolved-names specification
MaxNameRows == 2

\* a value column and a label column
NameDatasets == {[has_headers |-> TRUE, header_row |-> HeaderRow(2)]}

\* every configured name is either in the header or MissingName
NameConfigs ==
    {[target_column |-> Some(t), group_column |-> g, covariates |-> cs,
      boxplot_column |-> Some(b), max_columns |-> 2, max_groups |-> 2] :
        t \in {ColumnName(1), MissingName},
        g \in {None, Some(ColumnName(2)), Some(MissingName)},
        b \in {ColumnName(1), MissingName},
        cs \in {<<>>, <<MissingName>>, <<ColumnName(2), MissingName>>}}

InitNames == \E rec \in NameDatasets, cfg \in NameConfigs : InitWith(rec, cfg)

ReadNameRecord ==
    /\ Len(file) < MaxNameRows
    /\ \E rec \in RecordsOver(Cells, Len(headers)) : ProcessRecord(rec)

\* the steps of a request whose reads and writes succeed
NextNames ==
    \/ CreateDir
    \/ OpenWithHeaders
    \/ ReadNameRecord
    \/ EndOfRecords
    \/ WriteHeatmap
    \/ WriteBoxplot
    \/ SkipBoxplot
    \/ WriteStatsCsv
    \/ WriteRegressionCsv
    \/ WriteNoveltyCsv
    \/ WriteBiomarkerCsv

SpecNames == InitNames /\ [][NextNames]_vars

\* ----------------------------------------------------- the sort specification

\* records of a dataset of the sort specification: one more than an insertion-sorted slice
MaxSortRows == 21

\* the records whose cell is free; the later ones hold 2
FreeSortRows == 3

\* one column of numbers
SortDatasets == {[has_headers |-> TRUE, header_row |-> HeaderRow(1)]}

SortConfigs ==
    {[target_column |-> None, group_column |-> None, covariates |-> <<>>,
      boxplot_column |-> None, max_columns |-> 1, max_groups |-> 1]}

InitSort == \E rec \in SortDatasets, cfg \in SortConfigs : InitWith(rec, cfg)

\* a cell reads 1, 2 or NaN
SortRecords == {<<"1">>, <<"2">>, <<"NaN">>}

ReadSortRecord ==
    /\ Len(file) < MaxSortRows
    /\ \E rec \in SortRecords :
            /\ Len(file) >= FreeSortRows => rec = <<"2">>
            /\ ProcessRecord(rec)

\* the steps of a request whose reads and writes succeed
NextSort ==
    \/ CreateDir
    \/ OpenWithHeaders
    \/ ReadSortRecord
    \/ SortPanics
    \/ EndOfRecords
    \/ WriteHeatmap
    \/ SkipBoxplot
    \/ WriteStatsCsv
    \/ WriteRegressionCsv
    \/ WriteNoveltyCsv
    \/ WriteBiomarkerCsv

SpecSort == InitSort /\ [][NextSort]_vars

\* ----------------------------------------------- the truncation specification

\* columns of a dataset of the truncation specification: the target and TruncateTo + 1 markers
MaxCutCols == 52

\* records of a dataset of the truncation specification
MaxCutRows == 3

CutDatasets == {[has_headers |-> TRUE, header_row |-> HeaderRow(MaxCutCols)]}

\* the target is the first column, every column is selected
CutConfigs ==
    {[target_column |-> Some(ColumnName(1)), group_column |-> None, covariates |-> <<>>,
      boxplot_column |-> None, max_columns |-> MaxCutCols, max_groups |-> 1]}

InitCut == \E rec \in CutDatasets, cfg \in CutConfigs : InitWith(rec, cfg)

\* the target cell t; the markers hold 1, but for the last but one, which holds 1 or NaN, and
\* the last, which holds the target's cell
CutRecords ==
    {[c \in 1..MaxCutCols |->
        IF c = 1 \/ c = MaxCutCols THEN t
        ELSE IF c = MaxCutCols - 1 THEN b
        ELSE "1"] : t \in NumericCells, b \in {"1", "NaN"}}

ReadCutRecord ==
    /\ Len(file) < MaxCutRows
    /\ \E rec \in CutRecords : ProcessRecord(rec)

\* the run up to the built results
NextCut ==
    \/ CreateDir
    \/ OpenWithHeaders
    \/ ReadCutRecord
    \/ EndOfRecords

SpecCut == InitCut /\ [][NextCut]_vars

\* -------------------------------------------- the repeated-request specification

\* requests made for the one dataset id
MaxRequests == 2

\* records of the dataset of the repeated-request specification
MaxSeqRows == 2

\* the dataset is one file, the same at every request: record r holds r in both columns
SeqRecord(r) == <<ToString(r), ToString(r)>>

\* with and without a box plot
SeqConfigs ==
    {[target_column |-> None, group_column |-> Some(ColumnName(2)), covariates |-> <<>>,
      boxplot_column |-> b, max_columns |-> 2, max_groups |-> 2] :
        b \in {None, Some(ColumnName(1))}}

InitSeq == \E rec \in IoDatasets, cfg \in SeqConfigs : InitWith(rec, cfg)

ReadSeqRecord ==
    /\ Len(file) < MaxSeqRows
    /\ ProcessRecord(SeqRecord(Len(file) + 1))

\* the end of the file is reached after its last record
EndOfSeqRecords ==
    /\ Len(file) = MaxSeqRows
    /\ EndOfRecords

AnotherRequest ==
    /\ request < MaxRequests
    /\ \E cfg \in SeqConfigs : NextRequest(cfg)

\* requests one after the other, each with its failing steps
NextSeq ==
    \/ CreateDir
    \/ CreateDirFail
    \/ OpenWithHeaders
    \/ OpenFail
    \/ ReadSeqRecord
    \/ RecordError
    \/ EndOfSeqRecords
    \/ WriteHeatmap
    \/ WriteHeatmapFail
    \/ WriteBoxplot
    \/ SkipBoxplot
    \/ WriteBoxplotFail
    \/ WriteStatsCsv
    \/ WriteRegressionCsv
    \/ WriteNoveltyCsv
    \/ WriteBiomarkerCsv
    \/ WriteCsvFail
    \/ AnotherRequest

SpecSeq == InitSeq /\ [][NextSeq]_vars

\* ------------------------------------------------- the grouped specification

\* records of a dataset of the grouped specification
MaxGroupRows == 2

\* two value columns and a label column
GroupDatasets == {[has_headers |-> TRUE, header_row |-> HeaderRow(3)]}

\* grouped by the label column, with and without a target
GroupConfigs ==
    {[target_column |-> t, group_column |-> Some(ColumnName(3)), covariates |-> <<>>,
      boxplot_column |-> None, max_columns |-> 3, max_groups |-> 2] :
        t \in {None, Some(ColumnName(1))}}

InitGroups == \E rec \in GroupDatasets, cfg \in GroupConfigs : InitWith(rec, cfg)

\* a number or text in each value cell, one of two labels in the label cell
GroupRecords == {<<a, b, g>> : a \in Cells, b \in Cells, g \in {"A", "B"}}

ReadGroupRecord ==
    /\ Len(file) < MaxGroupRows
    /\ \E rec \in GroupRecords : ProcessRecord(rec)

\* the run up to the built results
NextGroups ==
    \/ CreateDir
    \/ OpenWithHeaders
    \/ ReadGroupRecord
    \/ EndOfRecords

SpecGroups == InitGroups /\ [][NextGroups]_vars

\* ------------------------------------------------- the box-plot specification

\* records of a dataset of the box-plot specification
MaxBoxRows == 3

\* a value column and a label column
BoxDatasets == {[has_headers |-> TRUE, header_row |-> HeaderRow(2)]}

\* group and box-plot column resolved or not, one or two groups drawn
BoxConfigs ==
    {[target_column |-> None, group_column |-> Some(g), covariates |-> <<>>,
      boxplot_column |-> Some(b), max_columns |-> 2, max_groups |-> m] :
        g \in {ColumnName(2), "missing"}, b \in {ColumnName(1), "missing"}, m \in {1, 2}}

InitBox == \E rec \in BoxDatasets, cfg \in BoxConfigs : InitWith(rec, cfg)

\* a number, NaN or text in the value cell, one of three labels in the label cell
BoxRecords == {<<v, g>> : v \in {"1", "2", "NaN", "x"}, g \in {"A", "B", "C"}}

ReadBoxRecord ==
    /\ Len(file) < MaxBoxRows
    /\ \E rec \in BoxRecords : ProcessRecord(rec)

\* the run up to the return of run_analysis
NextBox ==
    \/ CreateDir
    \/ OpenWithHeaders
    \/ ReadBoxRecord
    \/ EndOfRecords
    \/ WriteHeatmap
    \/ WriteBoxplot
    \/ SkipBoxplot

SpecBox == InitBox /\ [][NextBox]_vars

\* ------------------------------------------- the concurrent-request specification

\* the six files in the order a request writes them
WriteOrder ==
    <<"heatmap.png", "boxplot.png", "descriptive_stats.csv", "regressions.csv",
      "novelty_scores.csv", "biomarker_candidates.csv">>

\* a second request for the same dataset id is received while the first is being served; the
\* handler takes no lock and the output directory is the same
PeerArrives ==
    /\ peer = 0
    /\ peer' = 1
    /\ UNCHANGED <<record, config, file, pc, files, request, locals, results, paths>>

\* the second request, number request + 1, writes its next file; after the last it answers
\* success
PeerWrite ==
    /\ peer \in 1..Len(WriteOrder)
    /\ files' = [files EXCEPT ![WriteOrder[peer]] = request + 1]
    /\ peer' = peer + 1
    /\ UNCHANGED <<record, config, file, pc, request, locals, results, paths>>

\* the second request has answered success
PeerDone == peer = Len(WriteOrder) + 1

\* two requests side by side, neither failing
NextRace ==
    \/ CreateDir
    \/ OpenWithHeaders
    \/ ReadSeqRecord
    \/ EndOfSeqRecords
    \/ WriteHeatmap
    \/ WriteBoxplot
    \/ SkipBoxplot
    \/ WriteStatsCsv
    \/ WriteRegressionCsv
    \/ WriteNoveltyCsv
    \/ WriteBiomarkerCsv
    \/ PeerArrives
    \/ PeerWrite

SpecRace == InitSeq /\ [][NextRace]_vars

\* ------------------------------------------------------------------ claims

\* the builders have run: the results hold what run_analysis computed
Built ==
    pc \in {"heatmap", "boxplot", "stats_csv", "regression_csv", "novelty_csv",
            "biomarker_csv", "done"}

\* run_analysis has returned Ok(AnalysisArtifacts) to the handler
Returned == pc \in {"stats_csv", "regression_csv", "novelty_csv", "biomarker_csv", "done"}

\* every cell of column col_idx, over all data records of the file, parses as a number
AllNumericColumn(col_idx) ==
    \A r \in 1..Len(file) : IsSome(get_parsed(file[r], col_idx))

\* the DescriptiveStat entries of the selected column at position pos
StatsOf(pos) ==
    {i \in 1..Len(descriptive_stats) :
        descriptive_stats[i].column = column_label(selected_indices[pos])}

\* C1: run_analysis aggregates every data row of the dataset exactly once, with or without
\* a header line: after the run, the descriptive count of a selected column whose cells are
\* all numeric equals the number of data rows of the file.
C1_EveryDataRowCounted ==
    (Returned /\ Len(file) > 0) =>
        \A pos \in 1..NSel :
            AllNumericColumn(selected_indices[pos]) =>
                \E i \in StatsOf(pos) : descriptive_stats[i].count = Len(file)

\* C2: in univariate mode (no covariates) no emitted RegressionResult has the target
\* column itself as its predictor (the results are those of the selected columns other
\* than the target).
C2_NoTargetPredictor ==
    (Returned /\ config.covariates = <<>>) =>
        \A i \in 1..Len(regressions) :
            regressions[i].predictors # <<regressions[i].target>>

\* the parsed values of the selected column at pos exist and are all identical
ConstantColumn(pos) ==
    /\ Len(stats_values[pos]) > 0
    /\ \A i \in 1..Len(stats_values[pos]) : stats_values[pos][i] = stats_values[pos][1]

\* the biomarker_candidates entries of the selected column at position pos
CandidatesOf(pos) ==
    {i \in 1..Len(biomarker_candidates) :
        biomarker_candidates[i].column = column_label(selected_indices[pos])}

\* C3 as stated: with a target configured, biomarker_candidates never holds an entry for a
\* selected column whose parsed values are all identical.
C3_ConstantColumnExcluded ==
    (Returned /\ IsSome(config.target_column)) =>
        \A pos \in 1..NSel : ConstantColumn(pos) => CandidatesOf(pos) = {}

\* C3 as amended: zero variance does not exclude a column. Every entry of a selected column
\* whose parsed values are all identical has correlation 0, score 0 and direction
\* "positive"; and the entry is there whenever the column is not the target, has at least
\* 3 paired observations and the truncation drops nothing.
C3_ConstantColumnScoresZero ==
    (Built /\ IsSome(config.target_column)) =>
        \A pos \in 1..NSel :
            ConstantColumn(pos) =>
                /\ \A i \in CandidatesOf(pos) :
                        /\ biomarker_candidates[i].correlation = ZeroCorrelation
                        /\ biomarker_candidates[i].score_sq = RatInt(0)
                        /\ biomarker_candidates[i].direction = "positive"
                /\ (/\ Some(selected_indices[pos]) # target_index
                    /\ Len(biomarker_x[pos]) >= 3
                    /\ NSel <= TruncateTo) => CandidatesOf(pos) # {}

\* a constant column with 3 paired observations has been ranked, beside a target that varies
C3_Witness ==
    /\ Returned
    /\ \E pos \in 1..NSel :
            /\ ConstantColumn(pos)
            /\ Len(biomarker_x[pos]) >= 3
            /\ CandidatesOf(pos) # {}
            /\ \E i, j \in 1..Len(biomarker_y[pos]) : biomarker_y[pos][i] # biomarker_y[pos][j]

\* the columns of the header other than the resolved group column
NonGroupColumns == {i \in 1..Len(headers) : Some(i) # group_index}

\* the k smallest members of the set S of numbers
Smallest(S, k) == {i \in S : Cardinality({j \in S : j < i}) < k}

\* the header positions of the columns descriptive_stats reports, in output order
ReportedColumns ==
    [i \in 1..Len(descriptive_stats) |->
        CHOOSE c \in 1..Len(headers) : headers[c] = descriptive_stats[i].column]

Increasing(s) == \A i, j \in 1..Len(s) : i < j => s[i] < s[j]

\* C4 as stated: on an all-numeric dataset descriptive_stats has at most max_columns
\* entries, and they are the first columns in header order other than the group column.
C4_CappedAtMaxColumns ==
    (Returned /\ Len(file) > 0) =>
        /\ Len(descriptive_stats) <= config.max_columns
        /\ Increasing(ReportedColumns)
        /\ Range(ReportedColumns) = Smallest(NonGroupColumns, config.max_columns)

\* C4 as amended: the cap holds for max_columns >= 1 on a header with a column other than
\* the group column; with max_columns = 0, or when the group column is the only column,
\* every column of the header is analysed, the group column included.
C4_CappedOrAllColumns ==
    (Built /\ Len(file) > 0) =>
        /\ Increasing(ReportedColumns)
        /\ IF config.max_columns >= 1 /\ NonGroupColumns # {}
           THEN /\ Len(descriptive_stats) <= config.max_columns
                /\ Range(ReportedColumns) = Smallest(NonGroupColumns, config.max_columns)
           ELSE Range(ReportedColumns) = 1..Len(headers)

\* the cap has cut columns off: more columns other than the group column than max_columns
C4_Witness ==
    /\ Returned
    /\ Len(file) > 0
    /\ IsSome(group_index)
    /\ config.max_columns >= 1
    /\ Cardinality(NonGroupColumns) > config.max_columns
    /\ Len(descriptive_stats) = config.max_columns

\* C5: when an analysis request ends in an error, the request has produced no artifacts:
\* none of heatmap.png, boxplot.png, descriptive_stats.csv, regressions.csv,
\* novelty_scores.csv, biomarker_candidates.csv has been written by that request.
C5_NoArtifactsOnError ==
    pc = "failed" => \A f \in FileNames : files[f] # request

\* C6: the biomarker_candidates list returned by run_analysis is sorted non-increasing by
\* score (no entry is followed by one of a greater score) and has at most 50 entries.
C6_SortedAndTruncated ==
    Built =>
        /\ Len(biomarker_candidates) <= 50
        /\ \A i, j \in 1..Len(biomarker_candidates) :
                i < j => ~RatLt(biomarker_candidates[i].score_sq,
                                biomarker_candidates[j].score_sq)

\* C7: every novelty score returned by run_analysis lies in the closed interval [0, 1].
C7_NoveltyScoreInUnitInterval ==
    Built =>
        \A i \in 1..Len(novelty_scores) :
            /\ RatLe(RatInt(0), novelty_scores[i].score_sq)
            /\ RatLe(novelty_scores[i].score_sq, RatInt(1))

\* a group mean lies more than three standard deviations from the overall mean, and the
\* score returned is 1
C7_Witness ==
    /\ Returned
    /\ IsSome(group_index)
    /\ Len(novelty_scores) = 1
    /\ novelty_scores[1].score_sq = RatInt(1)
    /\ \E order \in Enumerations(DOMAIN group_sums) :
            LET mean == Rat(overall_sum[1], overall_count[1])
                variance == RatSub(Rat(overall_sum_sq[1], overall_count[1]), RatMul(mean, mean))
                max_delta == max_delta_over(order, group_sums, 1, mean, RatInt(0))
            IN  RatLt(RatMul(RatInt(9), variance), RatMul(max_delta, max_delta))

\* C8: every DescriptiveStat of a column with at least 2 parsed values has
\* min <= median <= max and std_dev >= 0.
C8_MinMedianMaxOrdered ==
    Built =>
        \A i \in 1..Len(descriptive_stats) :
            descriptive_stats[i].count >= 2 =>
                /\ RatLe(RatInt(descriptive_stats[i].min), descriptive_stats[i].median)
                /\ RatLe(descriptive_stats[i].median, RatInt(descriptive_stats[i].max))
                /\ RatLe(RatInt(0), descriptive_stats[i].std_dev_sq)

\* every record of the file is a point of the line y = a * x + b
OnLine(a, b) == PointsOnLine(file, a, b)

\* the x cells of the file are not all the same
SeveralX == \E r \in 1..Len(file) : file[r][1] # file[1][1]

\* a RegressionResult of the target on column_1 with intercept b, coefficient a and r2 = 1
Recovered(a, b) ==
    \E i \in 1..Len(regressions) :
        /\ regressions[i].predictors = <<ColumnName(1)>>
        /\ regressions[i].intercept = RatInt(b)
        /\ regressions[i].coefficients = <<RatInt(a)>>
        /\ regressions[i].r2 = RatInt(1)

\* C9 as stated: for every a, b and every series of at least 2 x-values, fitting
\* y = a*x + b with the univariate OLS path yields intercept = b, coefficient = a, r2 = 1.
C9_OlsRecoversLine ==
    Built =>
        \A a \in OlsSlopes, b \in OlsIntercepts :
            (Len(file) >= 2 /\ OnLine(a, b)) => Recovered(a, b)

\* C9: for every a # 0, every b and every series of at least 2 x-values that are not all
\* equal, fitting y = a*x + b with the univariate OLS path yields a RegressionResult with
\* intercept = b, coefficient = a and r2 = 1.
C9_OlsRecoversSlopedLine ==
    Built =>
        \A a \in OlsSlopes, b \in OlsIntercepts :
            (Len(file) >= 2 /\ OnLine(a, b) /\ a # 0 /\ SeveralX) => Recovered(a, b)

\* three points of a falling line with intercept 1 were fitted
C9_Witness ==
    /\ Returned
    /\ Len(file) = 3
    /\ OnLine(-1, 1)
    /\ \A r, q \in 1..Len(file) : r # q => file[r][1] # file[q][1]
    /\ Recovered(-1, 1)

\* the mean of group g in the selected column at position pos
GroupMean(g, pos) == Rat(group_sums[g][pos][1], group_sums[g][pos][2])

\* C10: two runs of run_analysis on the same dataset file and the same config return
\* identical descriptive_stats, regressions, novelty_scores, biomarker_candidates and
\* summary, whatever order the group hash map is iterated in.  The results are compared
\* where they are built; no later step of the request changes them.
C10_SameResultsInEveryOrder ==
    pc = "heatmap" =>
        /\ \A order \in Enumerations(DOMAIN group_sums) :
                novelty_scores =
                    build_novelty_scores(overall_sum, overall_sum_sq, overall_count,
                                         group_sums, order)
        /\ descriptive_stats = build_descriptive_stats(stats_values, stats_min, stats_max)
        /\ regressions =
                (IF covariate_indices = <<>>
                 THEN build_univariate_regressions(config.target_column,
                                                   univariate_x, univariate_y)
                 ELSE build_regressions(config.target_column, covariate_indices,
                                        regression_rows, regression_targets))
        /\ biomarker_candidates =
                build_biomarker_candidates(config.target_column, biomarker_x, biomarker_y)
        /\ summary = summary_text(Len(descriptive_stats), Len(regressions),
                                  Len(novelty_scores), Len(biomarker_candidates))

\* three groups whose means in the first selected column differ from the overall mean by
\* different amounts, and a score above 0
C10_Witness ==
    /\ Returned
    /\ Cardinality(DOMAIN group_sums) = 3
    /\ Len(novelty_scores) >= 1
    /\ novelty_scores[1].score_sq # RatInt(0)
    /\ overall_count[1] = 3
    /\ \E g, h \in DOMAIN group_sums :
            LET mean == Rat(overall_sum[1], overall_count[1])
            IN  RatAbs(RatSub(GroupMean(g, 1), mean)) # RatAbs(RatSub(GroupMean(h, 1), mean))

\* C11: the regression mode is selected by whether the configured covariates list is
\* non-empty: with a non-empty list run_analysis returns at most one RegressionResult, whose
\* predictors are covariates; per-column univariate results only with an empty list.
C11_ModeByConfiguredCovariates ==
    (Built /\ config.covariates # <<>>) =>
        /\ Len(regressions) <= 1
        /\ \A i \in 1..Len(regressions) :
                Range(regressions[i].predictors) \subseteq Range(config.covariates)

\* the rows of recs, in file order, that satisfy P
RowsWhere(recs, P(_)) == SelectSeq(recs, P)

\* the target cell and the cell of every resolved covariate parse as numbers
CompleteRow(rec) ==
    /\ IsSome(target_val(rec))
    /\ \A k \in 1..Len(covariate_indices) : IsSome(get_parsed(rec, covariate_indices[k][1]))

\* the target cell and the cell of the selected column at pos parse, and pos is not the target
PairedRow(rec, pos) ==
    /\ IsSome(target_val(rec))
    /\ IsSome(selected_val(rec, pos))
    /\ selected_indices[pos] # Unwrap(target_index)

\* the pairs recorded for the column at pos, whatever the covariates: <<values, targets>>
PairsIn(recs, pos) ==
    LET P(rec) == PairedRow(rec, pos)
        rows == RowsWhere(recs, P)
    IN  <<[r \in 1..Len(rows) |-> Unwrap(selected_val(rows[r], pos))],
          [r \in 1..Len(rows) |-> Unwrap(target_val(rows[r]))]>>

PairsOf(pos) == PairsIn(file, pos)

\* C12: with covariates configured (and resolved), a row enters the regression dataset iff
\* its target cell and every covariate cell parse; n of the multivariate result is the number
\* of such rows; the biomarker pairs are those recorded whatever the covariates.
C12_RegressionRowsAndPairs ==
    ((pc = "rows" \/ Built) /\ covariate_indices # <<>> /\ IsSome(target_index)) =>
        LET rows == RowsWhere(file, CompleteRow)
        IN  /\ regression_rows =
                    [r \in 1..Len(rows) |->
                        [k \in 1..Len(covariate_indices) |->
                            Unwrap(get_parsed(rows[r], covariate_indices[k][1]))]]
            /\ regression_targets = [r \in 1..Len(rows) |-> Unwrap(target_val(rows[r]))]
            /\ Built => \A i \in 1..Len(regressions) : regressions[i].n = Len(rows)
            /\ \A pos \in 1..NSel :
                    /\ biomarker_x[pos] = PairsOf(pos)[1]
                    /\ biomarker_y[pos] = PairsOf(pos)[2]

\* of three rows, one with an unparseable covariate was dropped from the regression (n = 2)
\* and still gave its pair to the biomarker ranking of another column
C12_Witness ==
    /\ Built
    /\ Len(file) = 3
    /\ Len(covariate_indices) = 1
    /\ Len(regressions) = 1
    /\ regressions[1].n = 2
    /\ \E pos \in 1..NSel : Len(biomarker_x[pos]) = 3

\* C13: for every readable, well-formed dataset and every config, run_analysis terminates
\* with a success result, provided the file writes succeed: no request whose reads and
\* writes succeed ends in an error or a panic.
C13_AlwaysSuccess == pc \notin {"failed", "panicked"}

\* a configured name that the header does not hold
Unresolved(name) == IsSome(name) /\ Unwrap(name) \notin Range(headers)

\* the rows of the file whose cell of the selected column at pos parses
ParsedRows(pos) == {r \in 1..Len(file) : IsSome(selected_val(file[r], pos))}

\* the selected positions with at least one parsed cell, in order
RECURSIVE ReportedFrom(_)
ReportedFrom(pos) ==
    IF pos > NSel THEN <<>>
    ELSE (IF ParsedRows(pos) # {} THEN <<pos>> ELSE <<>>) \o ReportedFrom(pos + 1)

\* descriptive_stats holds one entry per selected column with a parsed cell, in order,
\* with the count of its parsed cells
StatsOfSelectedColumns ==
    LET reported == ReportedFrom(1)
    IN  /\ Len(descriptive_stats) = Len(reported)
        /\ \A i \in 1..Len(reported) :
                /\ descriptive_stats[i].column = column_label(selected_indices[reported[i]])
                /\ descriptive_stats[i].count = Cardinality(ParsedRows(reported[i]))

\* the request is not stuck: short of the end, a step that is no failure can be taken
\* (after the last record it is the builders' step, which has no condition but its place)
Proceeds ==
    CASE pc = "start" -> ENABLED CreateDir
      [] pc = "open" -> ENABLED OpenWithHeaders
      [] pc \in {"rows", "rows_empty"} -> Enumerations(DOMAIN group_sums) # {}
      [] pc = "heatmap" -> ENABLED (WriteHeatmap \/ SkipHeatmap)
      [] pc = "boxplot" -> ENABLED (WriteBoxplot \/ SkipBoxplot)
      [] pc = "stats_csv" -> ENABLED WriteStatsCsv
      [] pc = "regression_csv" -> ENABLED WriteRegressionCsv
      [] pc = "novelty_csv" -> ENABLED WriteNoveltyCsv
      [] pc = "biomarker_csv" -> ENABLED WriteBiomarkerCsv
      [] pc = "done" -> TRUE
      [] OTHER -> FALSE

\* C14: unresolved column names only skip the features that depend on them: target not in
\* the header: regressions and biomarker_candidates are empty; group or boxplot column not
\* in the header: boxplot_path is None; a covariate not in the header is in no predictors
\* list; the request, its reads and writes succeeding, goes on towards success, with the
\* descriptive statistics of the selected columns.
C14_UnresolvedNamesOnlySkip ==
    /\ Proceeds
    /\ Built =>
            /\ Unresolved(config.target_column) =>
                    regressions = <<>> /\ biomarker_candidates = <<>>
            /\ \A i \in 1..Len(regressions) :
                    Range(regressions[i].predictors) \subseteq Range(headers)
            /\ StatsOfSelectedColumns
    /\ (Returned /\ (Unresolved(config.group_column) \/ Unresolved(config.boxplot_column)))
            => boxplot_path = None

\* the group name is not in the header and one of two covariates is not: the request has
\* returned without a box plot, with the fit on the covariate that was found
C14_Witness ==
    /\ pc = "done"
    /\ Unresolved(config.group_column)
    /\ ~Unresolved(config.boxplot_column)
    /\ config.covariates = <<ColumnName(2), MissingName>>
    /\ Len(regressions) = 1
    /\ regressions[1].predictors = <<ColumnName(2)>>
    /\ boxplot_path = None
    /\ Len(descriptive_stats) = 2

\* the rows of the file whose target cell and cell of the selected column at pos parse
FitRows(pos) ==
    LET P(rec) == IsSome(target_val(rec)) /\ IsSome(selected_val(rec, pos))
    IN  RowsWhere(file, P)

\* the x-values of the univariate fit of the selected column at pos
FitX(pos) ==
    LET rows == FitRows(pos)
    IN  [r \in 1..Len(rows) |-> Unwrap(selected_val(rows[r], pos))]

\* XtX of the univariate fit at pos is singular: all the x-values are equal
SingularFit(pos) ==
    LET xs == FitX(pos)
    IN  \A i, j \in 1..Len(xs) : xs[i] = xs[j]

\* the selected positions whose univariate fit has its two rows and an invertible XtX
RECURSIVE FittedFrom(_)
FittedFrom(pos) ==
    IF pos > NSel THEN <<>>
    ELSE LET xs == FitX(pos)
         IN  (IF Len(xs) >= 2 /\ (\E i, j \in 1..Len(xs) : xs[i] # xs[j])
              THEN <<pos>> ELSE <<>>) \o FittedFrom(pos + 1)

\* the design matrix of the multivariate fit: a 1 and the covariate cells of each complete row
DesignOfFile ==
    LET rows == RowsWhere(file, CompleteRow)
    IN  [r \in 1..Len(rows) |->
            <<1>> \o [k \in 1..Len(covariate_indices) |->
                        Unwrap(get_parsed(rows[r], covariate_indices[k][1]))]]

\* C15: whenever XtX of a fit is singular (equal x-values, a repeated or constant covariate,
\* fewer rows than coefficients) no RegressionResult is emitted for that fit, the fits of
\* the other columns are still emitted, and run_analysis goes on to return.
C15_SingularFitSkipped ==
    (Built /\ IsSome(target_index)) =>
        /\ pc \notin {"failed", "panicked"}
        /\ IF covariate_indices = <<>>
           THEN LET fitted == FittedFrom(1)
                IN  /\ Len(regressions) = Len(fitted)
                    /\ \A i \in 1..Len(fitted) :
                            regressions[i].predictors =
                                <<column_label(selected_indices[fitted[i]])>>
           ELSE LET x == DesignOfFile
                IN  (x # <<>> /\ det(xtx_of(x)) = 0) => regressions = <<>>

\* of three columns, the fit of one is singular (its x-values are equal) and skipped, and
\* the fit of a later one is emitted
C15_Witness ==
    /\ Built
    /\ IsSome(target_index)
    /\ covariate_indices = <<>>
    /\ \E p, q \in 1..NSel :
            /\ p < q
            /\ Len(FitX(p)) >= 2
            /\ SingularFit(p)
            /\ Len(regressions) = 1
            /\ regressions[1].predictors = <<column_label(selected_indices[q])>>

\* the values of s are not all the same
NonConstant(s) == \E i, j \in 1..Len(s) : s[i] # s[j]

\* the values of s are one number, repeated: its variance is 0
ZeroVariance(s) == Len(s) > 0 /\ ~IsNaN(s[1]) /\ ~NonConstant(s)

\* the correlation 1
OneCorrelation == <<1, RatInt(1)>>

\* C16: correlation is symmetric on every pair of equal-length series, is 1 for corr(x, x)
\* whenever x is not constant, and is 0 whenever either series has zero variance; the series
\* are the retained columns, which write_heatmap correlates pairwise.
C16_CorrelationLaws ==
    Built =>
        \A i, j \in 1..Len(stats_values) :
            LET x == stats_values[i]
                y == stats_values[j]
            IN  (Len(x) = Len(y) /\ Len(x) >= 2) =>
                    /\ correlation(x, y) = correlation(y, x)
                    /\ NonConstant(x) => correlation(x, x) = OneCorrelation
                    /\ (ZeroVariance(x) \/ ZeroVariance(y)) =>
                            correlation(x, y) = ZeroCorrelation

\* the records the row loop has read: all of them, but for the first record of a file
\* without a header line, which the header inference took (see C1)
RowsOfLoop == IF record.has_headers \/ file = <<>> THEN file ELSE Tail(file)

\* the pairs of the selected column at pos with the target, over the rows of the loop
PairsRead(pos) == PairsIn(RowsOfLoop, pos)

\* the selected positions other than the target's with at least 3 rows in which both the
\* column's cell and the target's parse; none when no target is resolved
RankedPositions ==
    IF IsSome(target_index)
    THEN {pos \in 1..NSel :
            /\ selected_indices[pos] # Unwrap(target_index)
            /\ Len(PairsRead(pos)[1]) >= 3}
    ELSE {}

\* n * sum(x * y) - sum(x) * sum(y) over the pairs of pos: the sign of their covariance
CovarianceSign(pos) ==
    LET x == PairsRead(pos)[1]
        y == PairsRead(pos)[2]
        n == Len(x)
    IN  Sign(n * SumSeq([i \in 1..n |-> x[i] * y[i]]) - SumSeq(x) * SumSeq(y))

\* C17: biomarker_candidates (no more than 50 columns, so nothing is truncated) holds an
\* entry for a selected column iff a target is configured and resolved, the column is not
\* the target, and at least 3 rows have both cells parseable; every entry has
\* score = |correlation| and direction "positive" exactly when correlation >= 0.
C17_CandidateIffThreePairs ==
    Built =>
        /\ Len(biomarker_candidates) = Cardinality(RankedPositions)
        /\ \A pos \in RankedPositions :
                \E i \in 1..Len(biomarker_candidates) :
                    biomarker_candidates[i].column = column_label(selected_indices[pos])
        /\ \A i \in 1..Len(biomarker_candidates) :
                LET e == biomarker_candidates[i]
                IN  \E pos \in RankedPositions :
                        /\ e.column = column_label(selected_indices[pos])
                        /\ e.correlation = correlation(PairsRead(pos)[1], PairsRead(pos)[2])
                        /\ e.score_sq = e.correlation[2]
                        /\ e.correlation[1] = (IF e.correlation[2] = RatInt(0) THEN 0
                                               ELSE CovarianceSign(pos))
                        /\ e.direction = "positive" <=> CorrGe0(e.correlation)
                        /\ e.direction \in {"positive", "negative"}

\* a column falls with the target over three paired rows (a fourth cell would not parse):
\* its entry is "negative"
C17_Witness ==
    /\ Built
    /\ Len(biomarker_candidates) = 1
    /\ biomarker_candidates[1].direction = "negative"
    /\ biomarker_candidates[1].score_sq = RatInt(1)

\* the candidates in header order, before the sort and the truncation
CandidatesBefore == biomarker_candidates_from(1, biomarker_x, biomarker_y)

\* the place of a column label in the header
HeaderPlace(label) == CHOOSE i \in 1..Len(headers) : column_label(i) = label

\* the candidates the truncation dropped
DroppedCandidates ==
    {c \in Range(CandidatesBefore) :
        \A i \in 1..Len(biomarker_candidates) : biomarker_candidates[i].column # c.column}

\* C18: biomarker ranking is a stable sort followed by truncation: two candidates of equal
\* score appear in header order, and no candidate dropped by the truncation to 50 has a
\* greater score than a candidate kept.
C18_StableSortThenTruncation ==
    Built =>
        /\ \A i, j \in 1..Len(biomarker_candidates) :
                (i < j /\ biomarker_candidates[i].score_sq = biomarker_candidates[j].score_sq)
                    => HeaderPlace(biomarker_candidates[i].column)
                            < HeaderPlace(biomarker_candidates[j].column)
        /\ \A d \in DroppedCandidates :
                \A i \in 1..Len(biomarker_candidates) :
                    ~RatLt(biomarker_candidates[i].score_sq, d.score_sq)

\* the parsed values of the selected column at pos, over the rows of the loop
ValuesRead(pos) ==
    LET P(rec) == IsSome(selected_val(rec, pos))
        rows == RowsWhere(RowsOfLoop, P)
    IN  [r \in 1..Len(rows) |-> Unwrap(selected_val(rows[r], pos))]

\* the selected positions with at least 2 parsed values, in order
RECURSIVE ScoredFrom(_)
ScoredFrom(pos) ==
    IF pos > NSel THEN <<>>
    ELSE (IF Len(ValuesRead(pos)) >= 2 THEN <<pos>> ELSE <<>>) \o ScoredFrom(pos + 1)

\* C19: a NoveltyScore is emitted for exactly the selected columns with at least 2 parsed
\* values, in selected-column order, and its score is 0 whenever the column's global
\* standard deviation is 0 (all its values identical).
C19_NoveltyForTwoValues ==
    Built =>
        LET scored == ScoredFrom(1)
        IN  /\ Len(novelty_scores) = Len(scored)
            /\ \A i \in 1..Len(scored) :
                    /\ novelty_scores[i].column = column_label(selected_indices[scored[i]])
                    /\ ~NonConstant(ValuesRead(scored[i]))
                            => novelty_scores[i].score_sq = RatInt(0)

\* two columns: the first has a single parsed value and no score, the second holds one
\* value three times and scores 0
C19_Witness ==
    /\ Built
    /\ NSel = 2
    /\ Len(ValuesRead(1)) = 1
    /\ Len(ValuesRead(2)) = 3
    /\ ~NonConstant(ValuesRead(2))
    /\ Len(novelty_scores) = 1
    /\ novelty_scores[1].column = column_label(selected_indices[2])
    /\ novelty_scores[1].score_sq = RatInt(0)

\* the fit res solves the normal equations of the design matrix x (a 1 and the predictors'
\* values per row, predictor k in column k + 1) and the targets y: every column of x is
\* orthogonal to the residual y - (intercept + sum of coefficients[k] * x[k + 1])
SolvesNormalEquations(res, x, y) ==
    LET beta == <<res.intercept>> \o res.coefficients
        y_hat(r) == RatSumSeq([c \in 1..Len(beta) |-> RatMul(RatInt(x[r][c]), beta[c])])
    IN  /\ Len(beta) = Len(x[1])
        /\ \A c \in 1..Len(beta) :
                RatSumSeq([r \in 1..Len(x) |->
                    RatMul(RatInt(x[r][c]), RatSub(RatInt(y[r]), y_hat(r)))]) = RatInt(0)

\* the targets of the complete rows of the file
TargetsOfFile ==
    LET rows == RowsWhere(file, CompleteRow)
    IN  [r \in 1..Len(rows) |-> Unwrap(target_val(rows[r]))]

\* the univariate design matrix and targets of the selected column at pos
UnivariateDesign(pos) == [r \in 1..Len(FitX(pos)) |-> <<1, FitX(pos)[r]>>]

UnivariateTargets(pos) ==
    LET rows == FitRows(pos)
    IN  [r \in 1..Len(rows) |-> Unwrap(target_val(rows[r]))]

\* C20: every RegressionResult has as many coefficients as predictors, coefficient k
\* belonging to predictor k: in multivariate mode the predictors are the resolved covariates
\* in configured order, in univariate mode there is one predictor and one coefficient.
C20_CoefficientsAligned ==
    Built =>
        \A i \in 1..Len(regressions) :
            LET res == regressions[i]
            IN  /\ Len(res.coefficients) = Len(res.predictors)
                /\ IF covariate_indices # <<>>
                   THEN /\ res.predictors =
                                [k \in 1..Len(covariate_indices) |-> covariate_indices[k][2]]
                        /\ res.predictors =
                                SelectSeq(config.covariates, LAMBDA c : c \in Range(headers))
                        /\ SolvesNormalEquations(res, DesignOfFile, TargetsOfFile)
                   ELSE /\ Len(res.predictors) = 1
                        /\ Len(res.coefficients) = 1
                        /\ \E pos \in 1..NSel :
                                /\ res.predictors = <<column_label(selected_indices[pos])>>
                                /\ SolvesNormalEquations(res, UnivariateDesign(pos),
                                                         UnivariateTargets(pos))

\* two covariates configured against the header order, with different coefficients
C20_Witness ==
    /\ Built
    /\ config.covariates = <<ColumnName(3), ColumnName(2)>>
    /\ Len(regressions) = 1
    /\ regressions[1].predictors = <<ColumnName(3), ColumnName(2)>>
    /\ Len(regressions[1].coefficients) = 2
    /\ regressions[1].coefficients[1] # regressions[1].coefficients[2]

\* C21: over any sequence of requests for one dataset id, after each successful request the
\* output directory holds boxplot.png only if that request produced a box plot, also when
\* an earlier request had produced one.
C21_BoxplotFileOnlyIfProduced ==
    (pc = "done" /\ files["boxplot.png"] # 0) =>
        /\ IsSome(boxplot_path)
        /\ files["boxplot.png"] = request

\* the (sum, count) of group g for the selected column at pos in the map m; a group without
\* an entry has accumulated nothing
GroupEntryIn(m, g, pos) == IF g \in DOMAIN m THEN m[g][pos] ELSE <<0, 0>>

\* the step is one turn of the row loop, on the record now last in the file
RowStep == pc = "rows" /\ pc' = "rows" /\ Len(file') = Len(file) + 1

\* what the turn of the row loop on rec does to the selected column at pos
CellFrame(rec, pos) ==
    IF IsSome(selected_val(rec, pos))
    THEN /\ overall_count'[pos] = overall_count[pos] + 1
         /\ overall_sum'[pos] = Add(overall_sum[pos], Unwrap(selected_val(rec, pos)))
         /\ stats_values'[pos] = Append(stats_values[pos], Unwrap(selected_val(rec, pos)))
         /\ IsSome(group_value(rec)) =>
                GroupEntryIn(group_sums', Unwrap(group_value(rec)), pos)[2]
                    = GroupEntryIn(group_sums, Unwrap(group_value(rec)), pos)[2] + 1
    ELSE /\ overall_count'[pos] = overall_count[pos]
         /\ overall_sum'[pos] = overall_sum[pos]
         /\ overall_sum_sq'[pos] = overall_sum_sq[pos]
         /\ stats_min'[pos] = stats_min[pos]
         /\ stats_max'[pos] = stats_max[pos]
         /\ stats_values'[pos] = stats_values[pos]
         /\ \A g \in DOMAIN group_sums' :
                GroupEntryIn(group_sums', g, pos) = GroupEntryIn(group_sums, g, pos)

\* C22: processing a row in which a selected column's cell does not parse leaves that
\* column's count, sum, sum of squares, min, max, retained vector and per-group (sum, count)
\* unchanged, while every other selected column whose cell parses is accumulated from the
\* same row.
C22_UnparsedCellLeavesColumn ==
    [][RowStep => \A pos \in 1..NSel : CellFrame(file'[Len(file')], pos)]_vars

\* a row of a new group whose first cell is text and whose second is a number was processed
C22_Witness ==
    /\ pc = "rows"
    /\ Len(file) = 1
    /\ file[1][1] = "x"
    /\ overall_count = <<0, 1>>
    /\ DOMAIN group_sums = {file[1][3]}
    /\ group_sums[file[1][3]][1] = <<0, 0>>

\* the selected positions with at least one parsed value, in order
RECURSIVE DescribedFrom(_)
DescribedFrom(pos) ==
    IF pos > NSel THEN <<>>
    ELSE (IF Len(ValuesRead(pos)) >= 1 THEN <<pos>> ELSE <<>>) \o DescribedFrom(pos + 1)

\* C23: descriptive_stats holds exactly one entry per selected column that has at least one
\* parseable cell and none for a column without any, in selected-column (header) order, and
\* each entry's count is the number of parseable cells of its column.
C23_OneStatPerParsedColumn ==
    Built =>
        LET described == DescribedFrom(1)
        IN  /\ Len(descriptive_stats) = Len(described)
            /\ \A i \in 1..Len(described) :
                    /\ descriptive_stats[i].column = column_label(selected_indices[described[i]])
                    /\ descriptive_stats[i].count = Len(ValuesRead(described[i]))

\* of two selected columns the first has no parseable cell and the second has one among
\* several, and the only entry is the second column's
C23_Witness ==
    /\ Built
    /\ NSel = 2
    /\ Len(file) = 3
    /\ record.has_headers
    /\ Len(ValuesRead(1)) = 0
    /\ Len(ValuesRead(2)) = 1
    /\ Len(descriptive_stats) = 1
    /\ descriptive_stats[1].column = column_label(selected_indices[2])

\* the two images run_analysis draws; the other four files are the handler's CSV files
ImageFiles == {"heatmap.png", "boxplot.png"}

\* C24: no artifact file is written before the computation has completed: the images are
\* written only after the pass over all rows and the four builders, the CSV files only
\* after run_analysis has returned success, and a request that fails at a row has written
\* no file.
C24_NoFileBeforeResults ==
    [][/\ \A f \in DOMAIN files :
            files'[f] # files[f] =>
                /\ files'[f] = request
                /\ IF f \in ImageFiles THEN Built ELSE Returned
       /\ (pc = "rows" /\ pc' = "failed") => \A f \in DOMAIN files : files'[f] # request
      ]_vars

\* the second request is in its row loop, one row read and the next one about to be read or
\* to fail, with the first request's files in place and none of its own
C24_Witness ==
    /\ pc = "rows"
    /\ request = 2
    /\ Len(file) = 1
    /\ ENABLED RecordError
    /\ \A f \in DOMAIN files \ {"boxplot.png"} : files[f] = 1

\* the rows of the loop with a parseable cell in the box-plot column
BoxRows ==
    LET P(rec) == IsSome(get_parsed(rec, Unwrap(boxplot_index)))
    IN  IF IsSome(boxplot_index) THEN RowsWhere(RowsOfLoop, P) ELSE <<>>

\* the group labels with at least one parseable box-plot value
BoxLabels ==
    IF IsSome(group_index)
    THEN {BoxRows[r][Unwrap(group_index)] : r \in 1..Len(BoxRows)}
    ELSE {}

\* the place of a label in ascending label order
LabelPlace(l) == CHOOSE i \in 1..Len(LabelOrder) : LabelOrder[i] = l

\* C25: the groups drawn in the box plot are the first max_groups labels in ascending label
\* order among the groups with at least one parseable box-plot value, and a box plot is
\* produced (boxplot_path is Some) iff the group column and the box-plot column are both
\* resolved and at least one row has a parseable box-plot cell.
C25_FirstGroupsDrawn ==
    Returned =>
        LET drawn == boxplot_groups(boxplot_values, config.max_groups)
        IN  /\ IsSome(boxplot_path)
                <=> (IsSome(group_index) /\ IsSome(boxplot_index) /\ Len(BoxRows) # 0)
            /\ Range(drawn) =
                    {l \in BoxLabels :
                        Cardinality({k \in BoxLabels : LabelPlace(k) < LabelPlace(l)})
                            < config.max_groups}
            /\ \A i, j \in 1..Len(drawn) :
                    i < j => LabelPlace(drawn[i]) < LabelPlace(drawn[j])
            /\ Len(drawn) = Cardinality(Range(drawn))

\* three groups have a value, read in descending label order, and the first two are drawn
C25_Witness ==
    /\ Returned
    /\ IsSome(boxplot_path)
    /\ config.max_groups = 2
    /\ Len(file) = 3
    /\ file[1][2] = "C"
    /\ file[2][2] = "B"
    /\ file[3][2] = "A"
    /\ BoxLabels = {"A", "B", "C"}
    /\ boxplot_groups(boxplot_values, config.max_groups) = <<"A", "B">>

\* a <= b, with a NaN on either side counted as in order
Le(a, b) == ~Lt(b, a)

\* x stands at the 0-based index k of an ascending arrangement of vals, a NaN among them
\* standing wherever it suits
AtSortedIndex(vals, x, k) ==
    /\ k < Len(vals)
    /\ ~IsNaN(x) =>
            /\ Cardinality({i \in 1..Len(vals) : Lt(vals[i], x)}) <= k
            /\ Cardinality({i \in 1..Len(vals) : Le(vals[i], x)}) >= k + 1

\* the five numbers of a group with values vals are its quartiles, in order
QuartilesOf(s, vals) ==
    LET n == Len(vals)
        five == <<s.min, s.q1, s.median, s.q3, s.max>>
    IN  /\ AtSortedIndex(vals, s.q1, n \div 4)
        /\ AtSortedIndex(vals, s.median, n \div 2)
        /\ AtSortedIndex(vals, s.q3, (3 * n) \div 4)
        /\ \A i, j \in 1..5 : i < j => Le(five[i], five[j])

\* C26: for every box-plot group with n >= 1 values, Q1, median and Q3 are the elements of
\* the ascending-sorted values at indices floor(n/4), floor(n/2) and floor(3n/4), all three
\* within bounds, and min <= Q1 <= median <= Q3 <= max.
C26_QuartilesInOrder ==
    (Returned /\ IsSome(boxplot_path)) =>
        LET drawn == boxplot_groups(boxplot_values, config.max_groups)
            stats == boxplot_stats(boxplot_values, config.max_groups)
        IN  /\ Len(stats) = Len(drawn)
            /\ \A i \in 1..Len(drawn) : QuartilesOf(stats[i], boxplot_values[drawn[i]])

\* the same on groups whose values are all numbers
C26_QuartilesOfNumbers ==
    (\A l \in DOMAIN boxplot_values : F64_NAN \notin Range(boxplot_values[l]))
        => C26_QuartilesInOrder

\* the row of the loop that gave the selected column at pos its k-th retained value
KthRow(pos, k) ==
    CHOOSE r \in 1..Len(RowsOfLoop) :
        /\ IsSome(selected_val(RowsOfLoop[r], pos))
        /\ Cardinality({q \in 1..r : IsSome(selected_val(RowsOfLoop[q], pos))}) = k

\* the value pairs correlation(x, y) reads: the first min(len x, len y) of each, none below 2
PairsCorrelated(i, j) ==
    LET n == Min2(Len(stats_values[i]), Len(stats_values[j]))
    IN  IF n < 2 THEN {} ELSE 1..n

\* C27: for any two heatmap columns i and j, the k-th value taken from column i and the k-th
\* value taken from column j belong to one data row, also when cells of either column were
\* unparseable and skipped.
C27_HeatmapPairsShareRow ==
    (Built /\ IsSome(heatmap_path)) =>
        \A i, j \in 1..Min2(NSel, HeatmapColumns) :
            \A k \in PairsCorrelated(i, j) :
                /\ stats_values[i][k] = Unwrap(selected_val(RowsOfLoop[KthRow(i, k)], i))
                /\ stats_values[j][k] = Unwrap(selected_val(RowsOfLoop[KthRow(j, k)], j))
                /\ KthRow(i, k) = KthRow(j, k)

\* the retained values are the parsed cells in row order: the k-th value of a column is the
\* cell of the k-th row whose cell parses
C27_RetainedInRowOrder ==
    Built =>
        \A i \in 1..NSel :
            \A k \in 1..Len(stats_values[i]) :
                stats_values[i][k] = Unwrap(selected_val(RowsOfLoop[KthRow(i, k)], i))

\* the files both requests write whatever their configs
FilesOfBoth == FileNames \ {"boxplot.png"}

\* C28: when two requests for the same dataset id run concurrently and both return success,
\* the artifact files left in the output directory were all written by one and the same of
\* the two requests.
C28_FilesOfOneRequest ==
    (pc = "done" /\ PeerDone) => \A f, g \in FilesOfBoth : files[f] = files[g]

\* the per-group sums (part = 1) or counts (part = 2) of the selected column at pos, summed
\* over all groups
OverGroups(pos, part) ==
    LET order == CHOOSE o \in Enumerations(DOMAIN group_sums) : TRUE
    IN  SumSeq([i \in 1..Len(order) |-> group_sums[order[i]][pos][part]])

\* C29: with a resolved group column, after every processed row and for every selected
\* column, the per-group counts summed over all groups equal the overall count, the
\* per-group sums summed over all groups equal the overall sum, and the overall count is
\* the length of the retained value vector.
C29_GroupTotalsMatch ==
    (pc = "rows" /\ IsSome(group_index)) =>
        \A pos \in 1..NSel :
            /\ OverGroups(pos, 2) = overall_count[pos]
            /\ OverGroups(pos, 1) = overall_sum[pos]
            /\ overall_count[pos] = Len(stats_values[pos])

\* two rows of two groups were processed, one of them with a text cell in the second column
C29_Witness ==
    /\ pc = "rows"
    /\ IsSome(group_index)
    /\ Len(file) = 2
    /\ DOMAIN group_sums = {"A", "B"}
    /\ overall_count = <<2, 1>>
    /\ OverGroups(1, 1) = overall_sum[1]
    /\ overall_sum[1] > 2

\* C30: after every processed row, for each selected column the biomarker x and y lists have
\* equal length and the univariate x and y lists have equal length, regression_rows and
\* regression_targets have equal length, and every regression row holds one value per
\* resolved covariate, so the length guards of the three builders skip nothing.
C30_PairedListsSameLength ==
    pc = "rows" =>
        /\ \A pos \in 1..NSel :
                /\ Len(biomarker_x[pos]) = Len(biomarker_y[pos])
                /\ Len(univariate_x[pos]) = Len(univariate_y[pos])
        /\ Len(regression_rows) = Len(regression_targets)
        /\ \A r \in 1..Len(regression_rows) :
                Len(regression_rows[r]) = Len(covariate_indices)

\* with two resolved covariates, three rows were processed: one with a text cell in a
\* covariate, left out of the regression rows and kept by the biomarker lists of the others
C30_Witness ==
    /\ pc = "rows"
    /\ Len(covariate_indices) = 2
    /\ Len(file) = 3
    /\ Len(regression_rows) = 2
    /\ Len(regression_targets) = 2
    /\ \E pos \in 1..NSel : Len(biomarker_x[pos]) = 3
    /\ \E pos \in 1..NSel : Len(biomarker_x[pos]) = 2

====
